---------------------------- MODULE Spec2Model ----------------------------
(***************************************************************************)
(* A model of the ergane crawl engine: the URL frontier (Scheduler), the   *)
(* per-domain TokenBucket, Fetcher.fetch, the Crawler worker pool and the  *)
(* output Pipeline.                                                         *)
(*                                                                         *)
(* Strings the code inspects character by character (URLs) are sequences   *)
(* of one-character strings.  The code runs on one asyncio event loop: a    *)
(* task is only descheduled where an await really suspends (a sleep, the    *)
(* network), and an uncontended asyncio.Lock never suspends, so every       *)
(* action below is the code between two suspensions of one task.            *)
(***************************************************************************)
EXTENDS Integers, Sequences, FiniteSets, TLC

(***************************************************************************)
(* Bounds of the model.                                                    *)
(***************************************************************************)
MaxAdds == 4          \* requests accepted by one scheduler in SpecSched
MaxQueueSize == 3     \* config.max_queue_size in SpecSched
TokenUnit == 4        \* a token is TokenUnit units of the bucket's level
TicksPerSec == 2      \* the clock of SpecBucket ticks TicksPerSec times a second
MaxTime == 6          \* the last tick of the clock of SpecBucket
MaxCallers == 2       \* concurrent callers of TokenBucket.acquire
MaxItems == 3         \* items handed to the Pipeline in SpecPipe
MaxBatchSize == 2     \* config.batch_size in SpecPipe
MaxRetries == 1       \* config.max_retries in SpecFetch
MaxFetchers == 2      \* concurrent callers of Fetcher.fetch in SpecFetch
MaxFetches == 2       \* calls of Fetcher.fetch in SpecFetch
MaxWorkers == 3       \* config.max_concurrent_requests in Spec
MaxSeenAdds == 22     \* requests accepted by the scheduler in SpecSeen
MaxHooks == 3         \* hooks registered with the Crawler in SpecHooks
MaxGetters == 2       \* concurrent callers of get / wait_not_empty in SpecWake
MaxClock == 3         \* the last tick of the clock of SpecCache

(***************************************************************************)
(* Characters and strings.                                                 *)
(***************************************************************************)
\* str.lower() on one character
LowerChar(c) ==
    CASE c = "A" -> "a"
      [] c = "B" -> "b"
      [] c = "E" -> "e"
      [] c = "F" -> "f"
      [] c = "H" -> "h"
      [] OTHER -> c

\* code point of a character: the order Python compares strings by
Ord(c) ==
    CASE c = "#" -> 35 [] c = "%" -> 37 [] c = "&" -> 38 [] c = "/" -> 47
      [] c = "1" -> 49 [] c = "2" -> 50 [] c = ":" -> 58 [] c = "=" -> 61
      [] c = "?" -> 63 [] c = "A" -> 65 [] c = "B" -> 66 [] c = "E" -> 69
      [] c = "F" -> 70 [] c = "H" -> 72 [] c = "a" -> 97 [] c = "b" -> 98
      [] c = "c" -> 99 [] c = "d" -> 100 [] c = "e" -> 101 [] c = "f" -> 102
      [] c = "h" -> 104 [] c = "o" -> 111 [] c = "x" -> 120 [] c = "y" -> 121
      [] OTHER -> 0

\* str.lower()
Lower(s) == [i \in 1..Len(s) |-> LowerChar(s[i])]

\* s < t for Python strings
RECURSIVE StrLT(_, _)
StrLT(s, t) ==
    IF t = <<>> THEN FALSE
    ELSE IF s = <<>> THEN TRUE
    ELSE IF Ord(Head(s)) # Ord(Head(t)) THEN Ord(Head(s)) < Ord(Head(t))
    ELSE StrLT(Tail(s), Tail(t))

\* position of the first character of s that is in cs, Len(s)+1 when none
RECURSIVE FindFirst(_, _, _)
FindFirst(s, cs, i) ==
    IF i > Len(s) THEN Len(s) + 1
    ELSE IF s[i] \in cs THEN i
    ELSE FindFirst(s, cs, i + 1)

\* s[i:] and s[:i] with 1-based positions
From(s, i) == SubSeq(s, i, Len(s))
Before(s, i) == SubSeq(s, 1, i - 1)

\* s.split(c)
RECURSIVE Split(_, _)
Split(s, c) ==
    LET i == FindFirst(s, {c}, 1)
    IN  IF i > Len(s) THEN <<s>>
        ELSE <<Before(s, i)>> \o Split(From(s, i + 1), c)

\* str.rstrip("/")
RECURSIVE RStripSlash(_)
RStripSlash(s) ==
    IF s # <<>> /\ s[Len(s)] = "/" THEN RStripSlash(Before(s, Len(s)))
    ELSE s

(***************************************************************************)
(* urllib.parse as Scheduler._normalize_url uses it.                       *)
(***************************************************************************)
\* urlparse(url): scheme, netloc, path, query, fragment
urlparse(url) ==
    LET colon == FindFirst(url, {":"}, 1)
        hasScheme == colon <= Len(url) /\ colon > 1
        scheme == IF hasScheme THEN Lower(Before(url, colon)) ELSE <<>>
        rest0 == IF hasScheme THEN From(url, colon + 1) ELSE url
        hasNet == Len(rest0) >= 2 /\ rest0[1] = "/" /\ rest0[2] = "/"
        afterSl == From(rest0, 3)
        netEnd == FindFirst(afterSl, {"/", "?", "#"}, 1)
        netloc == IF hasNet THEN Before(afterSl, netEnd) ELSE <<>>
        rest1 == IF hasNet THEN From(afterSl, netEnd) ELSE rest0
        hash == FindFirst(rest1, {"#"}, 1)
        fragment == From(rest1, hash + 1)
        rest2 == Before(rest1, hash)
        qm == FindFirst(rest2, {"?"}, 1)
    IN  [scheme |-> scheme, netloc |-> netloc, path |-> Before(rest2, qm),
         query |-> From(rest2, qm + 1), fragment |-> fragment]

\* parse_qsl(query): the (name, value) pairs, blank values dropped
RECURSIVE PairsOf(_)
PairsOf(fields) ==
    IF fields = <<>> THEN <<>>
    ELSE LET f == Head(fields)
             eq == FindFirst(f, {"="}, 1)
             name == Before(f, eq)
             value == From(f, eq + 1)
         IN  (IF f = <<>> \/ value = <<>> THEN <<>> ELSE <<(<<name, value>>)>>)
             \o PairsOf(Tail(fields))

parse_qsl(query) == PairsOf(Split(query, "&"))

\* (name, value) tuples compared as Python compares tuples of strings
PairLT(p, q) == StrLT(p[1], q[1]) \/ (p[1] = q[1] /\ StrLT(p[2], q[2]))

RECURSIVE InsertSorted(_, _)
InsertSorted(sorted, p) ==
    IF sorted = <<>> THEN <<p>>
    ELSE IF PairLT(p, Head(sorted)) THEN <<p>> \o sorted
    ELSE <<Head(sorted)>> \o InsertSorted(Tail(sorted), p)

\* sorted(pairs)
RECURSIVE SortPairs(_)
SortPairs(pairs) ==
    IF pairs = <<>> THEN <<>>
    ELSE InsertSorted(SortPairs(Before(pairs, Len(pairs))), pairs[Len(pairs)])

\* quote_plus(s): the reserved characters of the alphabet are percent-encoded
RECURSIVE quote_plus(_)
quote_plus(s) ==
    IF s = <<>> THEN <<>>
    ELSE (CASE Head(s) = "/" -> <<"%", "2", "F">>
            [] Head(s) = ":" -> <<"%", "3", "A">>
            [] Head(s) = "?" -> <<"%", "3", "F">>
            [] Head(s) = "=" -> <<"%", "3", "D">>
            [] OTHER -> <<Head(s)>>) \o quote_plus(Tail(s))

\* urlencode(pairs)
RECURSIVE urlencode(_)
urlencode(pairs) ==
    IF pairs = <<>> THEN <<>>
    ELSE quote_plus(pairs[1][1]) \o <<"=">> \o quote_plus(pairs[1][2])
         \o (IF Len(pairs) > 1 THEN <<"&">> \o urlencode(Tail(pairs)) ELSE <<>>)

\* Scheduler._normalize_url once the URL is parsed: the query is appended to
\* scheme://netloc/path with its pairs sorted, and only then are the
\* trailing slashes stripped and the whole lowered
JoinNormalized(base, query) ==
    Lower(RStripSlash(IF query # <<>>
                      THEN base \o <<"?">>
                           \o urlencode(SortPairs(parse_qsl(query)))
                      ELSE base))

NormalizeParsed(parsed) ==
    JoinNormalized(parsed.scheme \o <<":", "/", "/">> \o parsed.netloc
                   \o parsed.path,
                   parsed.query)

\* Scheduler._normalize_url
_normalize_url(url) == NormalizeParsed(urlparse(url))

(***************************************************************************)
(* The URLs of the model.                                                  *)
(***************************************************************************)
Origin == <<"h", ":", "/", "/", "e">>
Q_xy == <<"?", "x", "=", "1", "&", "y", "=", "2">>
Q_yx == <<"?", "y", "=", "2", "&", "x", "=", "1">>

U_a == Origin \o <<"/", "a">>
U_aSlash == Origin \o <<"/", "a", "/">>
U_aUpper == <<"H", ":", "/", "/", "E", "/", "a">>
U_aXY == U_a \o Q_xy
U_aYX == U_a \o Q_yx
U_aSlashXY == U_aSlash \o Q_xy
U_b == Origin \o <<"/", "b">>

\* the URLs offered to the scheduler in SpecSched
SchedURLs == {U_a, U_aSlash, U_aUpper, U_aXY, U_aYX, U_aSlashXY, U_b}
W_a == <<"h", ":", "/", "/", "f", "/", "a">>

\* the URLs fetched in SpecFetch, on two origins
FetchURLs == {U_a, W_a}

\* the pages of the sites of Spec, and a page of another domain
U_c == Origin \o <<"/", "c">>
U_d == Origin \o <<"/", "d">>
CrawlURLs == {U_a, U_b, U_c, U_d, W_a}

\* _MAX_SEEN_URLS and _EVICT_BATCH, scaled down by 5000
MAX_SEEN_URLS == 20
EVICT_BATCH == MAX_SEEN_URLS \div 10

\* the pages offered to the scheduler in SpecSeen: two more than the seen-set
\* holds, h://e/p00, h://e/p01, ...
Digits == <<"0", "1", "2", "3", "4", "5", "6", "7", "8", "9">>
SeenURL(i) ==
    Origin \o <<"/", "p", Digits[(i \div 10) + 1], Digits[(i % 10) + 1]>>
SeenPages == 0..(MAX_SEEN_URLS + 1)
SeenURLs == {SeenURL(i) : i \in SeenPages}

\* every URL of the model
AllURLs == SchedURLs \cup FetchURLs \cup CrawlURLs \cup SeenURLs

\* _normalize_url over the URLs of the model, computed once
NormTable == [u \in AllURLs |-> _normalize_url(u)]

Priorities == {0, 5}

\* CrawlRequest (metadata is never read by the scheduler)
CrawlRequest(url, depth, priority) ==
    [url |-> url, depth |-> depth, priority |-> priority]

\* the requests add is called with in SpecSched
SchedRequests ==
    {CrawlRequest(U_a, 0, 0), CrawlRequest(U_aSlash, 0, 5),
     CrawlRequest(U_aUpper, 0, 0), CrawlRequest(U_aXY, 0, 5),
     CrawlRequest(U_aYX, 0, 0), CrawlRequest(U_aSlashXY, 0, 5),
     CrawlRequest(U_b, 0, 0), CrawlRequest(U_b, 0, 5)}

\* the requests add_many is called with in SpecSched
BatchRequests ==
    {CrawlRequest(U_a, 0, 0), CrawlRequest(U_aSlash, 0, 5),
     CrawlRequest(U_aXY, 0, 5), CrawlRequest(U_b, 0, 0)}

(***************************************************************************)
(* heapq on a list of (negated priority, sequence, request) entries.        *)
(* Positions are the 0-based positions of the Python list.                  *)
(***************************************************************************)
\* CrawlRequest.__lt__
RequestLT(a, b) == a.priority > b.priority

\* tuple comparison of two queue entries
EntryLT(a, b) ==
    \/ a[1] < b[1]
    \/ a[1] = b[1] /\ a[2] < b[2]
    \/ a[1] = b[1] /\ a[2] = b[2] /\ RequestLT(a[3], b[3])

\* heap[pos] = item
Put(heap, pos, item) == [heap EXCEPT ![pos + 1] = item]

\* heapq._siftdown(heap, startpos, pos), newitem being the entry moved up
RECURSIVE _siftdown(_, _, _, _)
_siftdown(heap, startpos, pos, newitem) ==
    IF pos > startpos
    THEN LET parentpos == (pos - 1) \div 2
             parent == heap[parentpos + 1]
         IN  IF EntryLT(newitem, parent)
             THEN _siftdown(Put(heap, pos, parent), startpos, parentpos, newitem)
             ELSE Put(heap, pos, newitem)
    ELSE Put(heap, pos, newitem)

\* heapq._siftup(heap, pos): bubble the smaller child up to a leaf, then sift
\* newitem down from there
RECURSIVE _siftup(_, _, _, _)
_siftup(heap, startpos, pos, newitem) ==
    LET endpos == Len(heap)
        leftpos == 2 * pos + 1
        rightpos == leftpos + 1
        childpos == IF rightpos < endpos
                       /\ ~EntryLT(heap[leftpos + 1], heap[rightpos + 1])
                    THEN rightpos ELSE leftpos
    IN  IF leftpos < endpos
        THEN _siftup(Put(heap, pos, heap[childpos + 1]), startpos, childpos, newitem)
        ELSE _siftdown(Put(heap, pos, newitem), startpos, pos, newitem)

\* heapq.heappush(heap, item)
heappush(heap, item) ==
    _siftdown(Append(heap, item), 0, Len(heap), item)

\* heapq.heappop(heap): the entry returned and the heap left
heappop(heap) ==
    LET lastelt == heap[Len(heap)]
        rest == SubSeq(heap, 1, Len(heap) - 1)
    IN  IF rest = <<>>
        THEN [item |-> lastelt, heap |-> rest]
        ELSE [item |-> rest[1], heap |-> _siftup(rest, 0, 0, lastelt)]

(***************************************************************************)
(* Scheduler.  A scheduler is a record of its fields.                       *)
(***************************************************************************)
NoRequest == [url |-> <<>>, depth |-> -1, priority |-> 0]

\* Scheduler.__init__
NewScheduler ==
    [queue |-> <<>>, counter |-> 0, seen |-> <<>>, not_empty |-> FALSE]

\* normalized in self._seen
InSeen(seen, normalized) == \E i \in 1..Len(seen) : seen[i] = normalized

\* the eviction of the oldest entries when the seen-set is full
EvictOldest(seen) ==
    IF Len(seen) >= MAX_SEEN_URLS
    THEN SubSeq(seen, EVICT_BATCH + 1, Len(seen))
    ELSE seen

\* Enqueue never evicting from the seen-set
Enqueue_NoEviction(s, request, normalized) ==
    [s EXCEPT !.seen = Append(s.seen, normalized),
              !.counter = s.counter + 1,
              !.queue = heappush(s.queue,
                                 <<-request.priority, s.counter + 1, request>>)]

\* Enqueue pushing the priority as it is, not negated
Enqueue_PriorityNotNegated(s, request, normalized) ==
    [s EXCEPT !.seen = Append(EvictOldest(s.seen), normalized),
              !.counter = s.counter + 1,
              !.queue = heappush(s.queue,
                                 <<request.priority, s.counter + 1, request>>)]

\* the recording of an accepted request: seen-set, counter and heap
Enqueue(s, request, normalized) ==
    [s EXCEPT !.seen = Append(EvictOldest(s.seen), normalized),
              !.counter = s.counter + 1,
              !.queue = heappush(s.queue,
                                 <<-request.priority, s.counter + 1, request>>)]

\* Scheduler.add recording the URL as seen before it looks at the queue size
SchedAdd_SeenBeforeFull(s, request, max_queue_size) ==
    LET normalized == NormTable[request.url]
    IN  IF InSeen(s.seen, normalized) THEN [s |-> s, ret |-> FALSE]
        ELSE IF Len(s.queue) >= max_queue_size
        THEN [s |-> [s EXCEPT !.seen = Append(EvictOldest(s.seen), normalized)],
              ret |-> FALSE]
        ELSE [s |-> [Enqueue(s, request, normalized) EXCEPT !.not_empty = TRUE],
              ret |-> TRUE]

\* Scheduler.add: the scheduler after the call and the value returned
SchedAdd(s, request, max_queue_size) ==
    LET normalized == NormTable[request.url]
    IN  IF InSeen(s.seen, normalized) THEN [s |-> s, ret |-> FALSE]
        ELSE IF Len(s.queue) >= max_queue_size THEN [s |-> s, ret |-> FALSE]
        ELSE [s |-> [Enqueue(s, request, normalized) EXCEPT !.not_empty = TRUE],
              ret |-> TRUE]

\* the loop of Scheduler.add_many looking a URL up in the seen-set as it
\* was before the call, so that a repeat within the batch is not found
RECURSIVE AddManyLoop_SeenAtCall(_, _, _, _, _)
AddManyLoop_SeenAtCall(s, requests, i, added, max_queue_size) ==
    IF i > Len(requests) THEN [s |-> s, ret |-> added]
    ELSE LET req == requests[i]
             normalized == NormTable[req.url]
         IN  IF /\ InSeen(s.seen, normalized)
                /\ \A j \in 1..(i - 1) : NormTable[requests[j].url] # normalized
             THEN AddManyLoop_SeenAtCall(s, requests, i + 1, added,
                                         max_queue_size)
             ELSE IF Len(s.queue) >= max_queue_size
             THEN AddManyLoop_SeenAtCall(s, requests, i + 1, added,
                                         max_queue_size)
             ELSE AddManyLoop_SeenAtCall(Enqueue(s, req, normalized), requests,
                                         i + 1, added + 1, max_queue_size)

\* the loop of Scheduler.add_many over requests[i..]
RECURSIVE AddManyLoop(_, _, _, _, _)
AddManyLoop(s, requests, i, added, max_queue_size) ==
    IF i > Len(requests) THEN [s |-> s, ret |-> added]
    ELSE LET req == requests[i]
             normalized == NormTable[req.url]
         IN  IF InSeen(s.seen, normalized)
             THEN AddManyLoop(s, requests, i + 1, added, max_queue_size)
             ELSE IF Len(s.queue) >= max_queue_size
             THEN AddManyLoop(s, requests, i + 1, added, max_queue_size)
             ELSE AddManyLoop(Enqueue(s, req, normalized), requests, i + 1,
                              added + 1, max_queue_size)

\* Scheduler.add_many
SchedAddMany(s, requests, max_queue_size) ==
    LET r == AddManyLoop(s, requests, 1, 0, max_queue_size)
    IN  [s |-> IF r.ret > 0 THEN [r.s EXCEPT !.not_empty = TRUE] ELSE r.s,
         ret |-> r.ret]

\* Scheduler.get_nowait (and the body of Scheduler.get once the queue is
\* not empty)
SchedGetNowait(s) ==
    IF s.queue # <<>>
    THEN LET p == heappop(s.queue)
         IN  [s |-> [s EXCEPT !.queue = p.heap,
                              !.not_empty = IF p.heap = <<>> THEN FALSE
                                            ELSE s.not_empty],
              ret |-> p.item[3]]
    ELSE [s |-> s, ret |-> NoRequest]

\* Scheduler.is_empty
SchedIsEmpty(s) == Len(s.queue) = 0

\* _request_to_dict, and CrawlRequest(**r) which undoes it
_request_to_dict(r) == <<r.url, r.depth, r.priority>>
RequestFromDict(d) == CrawlRequest(d[1], d[2], d[3])

\* Scheduler.get_state
get_state(s) ==
    [seen_urls |-> s.seen,
     queue |-> [i \in 1..Len(s.queue) |->
                  <<s.queue[i][1], s.queue[i][2], _request_to_dict(s.queue[i][3])>>]]

\* max(c for _, c, _ in queue)
RECURSIVE MaxCounter(_)
MaxCounter(queue) ==
    IF Len(queue) = 1 THEN queue[1][2]
    ELSE LET m == MaxCounter(Tail(queue))
         IN  IF queue[1][2] > m THEN queue[1][2] ELSE m

\* restore_state leaving the counter of the fresh scheduler as it is
RestoredCounter_Unchanged(s, queue) == s.counter

\* the counter Scheduler.restore_state leaves
RestoredCounter(s, queue) ==
    IF queue # <<>> THEN MaxCounter(queue) + 1 ELSE s.counter

\* Scheduler.restore_state
restore_state(s, state) ==
    LET queue == [i \in 1..Len(state.queue) |->
                    <<state.queue[i][1], state.queue[i][2],
                      RequestFromDict(state.queue[i][3])>>]
    IN  [queue |-> queue,
         counter |-> RestoredCounter(s, queue),
         seen |-> state.seen_urls,
         not_empty |-> IF queue # <<>> THEN TRUE ELSE s.not_empty]

(***************************************************************************)
(* TokenBucket.  Time is counted in ticks and the level of the bucket in    *)
(* units of 1/TokenUnit token, so a rate is a number of units per tick.     *)
(***************************************************************************)
\* the rates of the model, in units per tick: with TokenUnit = 4 and
\* TicksPerSec = 2 these are 0.5, 1 and 2 tokens per second
Rates == {1, 2, 4}

Min(a, b) == IF a < b THEN a ELSE b

\* the least n with n * d >= x
CeilDiv(x, d) == (x + d - 1) \div d

\* TokenBucket.__init__(rate): capacity = capacity or rate, i.e. the tokens
\* of one second
NewBucket(rate, t) ==
    [rate |-> rate, capacity |-> rate * TicksPerSec,
     tokens |-> rate * TicksPerSec, last_update |-> t, lock |-> 0]

\* the refill of acquire: tokens and last_update at time t
Refill_NoStamp(b, t) ==
    [b EXCEPT !.tokens = Min(b.capacity, b.tokens + (t - b.last_update) * b.rate)]

Refill(b, t) ==
    [b EXCEPT !.tokens = Min(b.capacity, b.tokens + (t - b.last_update) * b.rate),
              !.last_update = t]

\* a pass of acquire that takes a token whatever the level of the bucket
AcquireOnce_NoCheck(b, t) ==
    LET r == Refill(b, t)
    IN  [b |-> [r EXCEPT !.tokens = r.tokens - TokenUnit], ok |-> TRUE,
         wait_time |-> 0, holds_lock |-> FALSE]

\* a pass of acquire that sleeps inside the `async with self._lock` block
AcquireOnce_SleepInLock(b, t) ==
    LET r == Refill(b, t)
    IN  IF r.tokens >= TokenUnit
        THEN [b |-> [r EXCEPT !.tokens = r.tokens - TokenUnit], ok |-> TRUE,
              wait_time |-> 0, holds_lock |-> FALSE]
        ELSE [b |-> r, ok |-> FALSE,
              wait_time |-> CeilDiv(TokenUnit - r.tokens, r.rate),
              holds_lock |-> TRUE]

\* one pass of the loop of TokenBucket.acquire at time t, under the lock:
\* the bucket left, whether the call returns, the ticks to sleep if not,
\* and whether the caller still holds the lock when it returns or sleeps
\* (the `async with` block ends before the sleep)
AcquireOnce(b, t) ==
    LET r == Refill(b, t)
    IN  IF r.tokens >= TokenUnit
        THEN [b |-> [r EXCEPT !.tokens = r.tokens - TokenUnit], ok |-> TRUE,
              wait_time |-> 0, holds_lock |-> FALSE]
        ELSE [b |-> r, ok |-> FALSE,
              wait_time |-> CeilDiv(TokenUnit - r.tokens, r.rate),
              holds_lock |-> FALSE]

(***************************************************************************)
(* Fetcher.  What the network layer (httpx) gives for one GET is an outcome: *)
(* a status code or the class of the exception raised.                      *)
(***************************************************************************)
None == "None"

\* the outcomes of the GET of a page, and of a robots.txt
PageOutcomes == {"200", "404", "ReadTimeout", "ConnectError"}
RobotsOutcomes == {"200 allow", "200 disallow", "404", "ConnectError"}

IsStatus(outcome) == outcome \in {"200", "404"}
StatusCode(outcome) == IF outcome = "200" THEN 200 ELSE 404

\* issubclass(exc, cls) in httpx's exception hierarchy
IsSubclass(exc, cls) ==
    \/ exc = cls
    \/ exc = "ReadTimeout" /\ cls \in {"TimeoutException", "TransportError", "HTTPError"}
    \/ exc = "ConnectError" /\ cls \in {"NetworkError", "TransportError", "HTTPError"}

\* str(e)
StrOf(exc) == "str " \o exc

\* the except clauses of the attempt loop of fetch keeping the error of
\* the first failed attempt
last_error_First(exc, last_error) ==
    IF last_error # None THEN last_error
    ELSE IF IsSubclass(exc, "TimeoutException") THEN "Request timeout"
    ELSE IF IsSubclass(exc, "HTTPError") THEN StrOf(exc)
    ELSE "uncaught"

\* the except clauses of the attempt loop of fetch: last_error after an
\* attempt raised exc, "uncaught" when no clause matches
last_error_After(exc, last_error) ==
    IF IsSubclass(exc, "TimeoutException") THEN "Request timeout"
    ELSE IF IsSubclass(exc, "HTTPError") THEN StrOf(exc)
    ELSE "uncaught"

\* the sleep between attempts, were it the same after every attempt
BackoffDelay_Fixed(retry_base_delay, attempt) == retry_base_delay

\* delay = self.config.retry_base_delay * (2**attempt)
BackoffDelay(retry_base_delay, attempt) == retry_base_delay * 2^attempt

\* str(resp.url): the URL of the response to the GET of url, the client
\* following redirects; the page of the second origin redirects to the
\* page of the first
ResponseURL ==
    [url \in FetchURLs |-> IF url = W_a THEN U_a ELSE url]

\* urlparse(url).netloc: Fetcher._get_domain
_get_domain(url) == urlparse(url).netloc

\* the robots.txt URL of _get_robots
RobotsUrl(url) ==
    LET parsed == urlparse(url)
    IN  parsed.scheme \o <<":", "/", "/">> \o parsed.netloc
        \o <<"/", "r", "o", "b", "o", "t", "s", ".", "t", "x", "t">>

RobotsUrlTable == [u \in FetchURLs |-> RobotsUrl(u)]
DomainTable == [u \in FetchURLs \cup CrawlURLs |-> _get_domain(u)]
Domains == {DomainTable[u] : u \in FetchURLs}

\* Fetcher._ROBOTS_CACHE_MAX, scaled down by 10^3
ROBOTS_CACHE_MAX == 1

\* robots_url in self._robots_cache, and self._robots_cache[robots_url]
RobotsCached(cache, robots_url) == \E i \in 1..Len(cache) : cache[i].url = robots_url
RobotsEntry(cache, robots_url) ==
    cache[CHOOSE i \in 1..Len(cache) : cache[i].url = robots_url].rp

\* the eviction of _get_robots on a miss
RobotsEvict(cache) ==
    IF Len(cache) >= ROBOTS_CACHE_MAX THEN Tail(cache) ELSE cache

\* self._robots_cache[robots_url] = rp: a dict keeps the place of a key
\* it already holds
RobotsStore(cache, robots_url, rp) ==
    IF RobotsCached(cache, robots_url)
    THEN [i \in 1..Len(cache) |->
            IF cache[i].url = robots_url THEN [url |-> robots_url, rp |-> rp]
            ELSE cache[i]]
    ELSE Append(cache, [url |-> robots_url, rp |-> rp])

\* the rates of the configuration of SpecFetch, in requests per second: the
\* global rate, and the map of the rates of single domains, which names
\* the second origin
FetchRates ==
    [max_requests_per_second |-> 1,
     domain_rate_limits |-> [d \in {_get_domain(W_a)} |-> 100]]

\* a domain that has no bucket in self._domain_buckets
NoBucket == [exists |-> FALSE, rate |-> 0, taken |-> 0]

\* Fetcher._get_bucket: the buckets once the bucket of the domain is there
_get_bucket(bs, domain, config) ==
    IF ~bs[domain].exists
    THEN [bs EXCEPT ![domain] =
            [exists |-> TRUE, rate |-> config.max_requests_per_second,
             taken |-> 0]]
    ELSE bs

\* what _get_robots caches and returns for the outcome of its GET
RobotsParsed(outcome) ==
    IF outcome = "200 allow" THEN "rules: allow"
    ELSE IF outcome = "200 disallow" THEN "rules: disallow"
    ELSE None

\* the rest of Fetcher.can_fetch, given what _get_robots returned
RobotsAllows(rp) == rp = None \/ rp # "rules: disallow"

\* CrawlResponse
CrawlResponse(url, status_code, content, error, from_cache) ==
    [url |-> url, status_code |-> status_code, content |-> content,
     error |-> error, from_cache |-> from_cache]

\* the response fetch builds from the answer to the GET of the page: the
\* body is kept for a 200 only
PageResponse(url, outcome) ==
    CrawlResponse(url, StatusCode(outcome),
                  IF StatusCode(outcome) = 200 THEN "html" ELSE "", None, FALSE)

\* the response fetch returns when every attempt has failed
FailedResponse(url, last_error) == CrawlResponse(url, 0, "", last_error, FALSE)

NoResponse == CrawlResponse(<<>>, -1, "", None, FALSE)
NoEntry == [present |-> FALSE, status_code |-> 0, content |-> "", expired |-> FALSE]

\* ResponseCache._get_sync: the entry returned (NoEntry for None) and the
\* cache left: an expired entry is deleted
CacheGet(cache, url) ==
    IF ~cache[url].present THEN [entry |-> NoEntry, cache |-> cache]
    ELSE IF cache[url].expired
    THEN [entry |-> NoEntry, cache |-> [cache EXCEPT ![url] = NoEntry]]
    ELSE [entry |-> cache[url], cache |-> cache]

\* ResponseCache._set_sync
CacheSet(cache, url, status_code, content) ==
    [cache EXCEPT ![url] = [present |-> TRUE, status_code |-> status_code,
                            content |-> content, expired |-> FALSE]]

\* where fetch goes once can_fetch has answered: the 403 response, the
\* cache lookup or the attempt loop.  This one looks into the cache before
\* it applies the answer of robots.
AfterRobots_CacheFirst(allowed, cache_enabled) ==
    IF cache_enabled THEN "cache_get"
    ELSE IF ~allowed THEN "blocked"
    ELSE "acquire"

AfterRobots(allowed, cache_enabled) ==
    IF ~allowed THEN "blocked"
    ELSE IF cache_enabled THEN "cache_get"
    ELSE "acquire"

(***************************************************************************)
(* Pipeline.  A pipeline is a record of its fields and of the batch files   *)
(* it has written; a file is the sequence of its records.                   *)
(***************************************************************************)
OutputFormats == {"parquet", "csv", "json", "sqlite"}

\* the items of SpecPipe: a url and a payload
PipeItems == {[url |-> u, title |-> t] : u \in {"A", "B"}, t \in {"v1", "v2"}}

\* Pipeline.__init__
NewPipeline(batch_size, output_format) ==
    [buffer |-> <<>>, batch_number |-> 0, total_written |-> 0, files |-> <<>>,
     batch_size |-> batch_size, output_format |-> output_format]

\* Pipeline._flush_unlocked
_flush_unlocked(pl) ==
    IF pl.buffer = <<>> THEN pl
    ELSE LET batch == SubSeq(pl.buffer, 1, Min(pl.batch_size, Len(pl.buffer)))
         IN  [pl EXCEPT !.buffer = SubSeq(pl.buffer, pl.batch_size + 1,
                                          Len(pl.buffer)),
                        !.files = Append(pl.files, batch),
                        !.batch_number = pl.batch_number + 1,
                        !.total_written = pl.total_written + Len(batch)]

\* Pipeline.add
PipelineAdd(pl, item) ==
    LET q == [pl EXCEPT !.buffer = Append(pl.buffer, item)]
    IN  IF Len(q.buffer) >= q.batch_size THEN _flush_unlocked(q) ELSE q

\* the loop of Pipeline.add_many: flush while a whole batch is buffered
RECURSIVE FlushWhileFull(_)
FlushWhileFull(pl) ==
    IF Len(pl.buffer) >= pl.batch_size THEN FlushWhileFull(_flush_unlocked(pl))
    ELSE pl

\* Pipeline.add_many
PipelineAddMany(pl, items) ==
    FlushWhileFull([pl EXCEPT !.buffer = pl.buffer \o items])

\* Pipeline.flush
RECURSIVE PipelineFlush(_)
PipelineFlush(pl) ==
    IF pl.buffer # <<>> THEN PipelineFlush(_flush_unlocked(pl)) ELSE pl

\* pl.concat of the batch files in the order of their names
RECURSIVE Concat(_)
Concat(files) ==
    IF files = <<>> THEN <<>> ELSE Head(files) \o Concat(Tail(files))

\* the rows of combined.unique(subset=["url"], keep="last"), in the order
\* of combined
KeepLast(rows) ==
    LET Kept(i) == \A j \in (i + 1)..Len(rows) : rows[j].url # rows[i].url
        RECURSIVE Pick(_)
        Pick(i) == IF i > Len(rows) THEN <<>>
                   ELSE (IF Kept(i) THEN <<rows[i]>> ELSE <<>>) \o Pick(i + 1)
    IN  Pick(1)

\* the sequences that hold the elements of seq in some order
Orderings(seq) ==
    {[i \in 1..Len(seq) |-> seq[f[i]]] :
        f \in {g \in [1..Len(seq) -> 1..Len(seq)] :
                  \A i, j \in 1..Len(seq) : i # j => g[i] # g[j]}}

\* Pipeline.consolidate: the contents the output file may have afterwards
\* (unique() keeps no order), given the contents it had
ConsolidateOutputs(pl, old) ==
    IF pl.files = <<>> THEN {old}
    ELSE IF Len(pl.files) = 1 /\ pl.output_format \notin {"json", "sqlite"}
    THEN {pl.files[1]}
    ELSE UNION {Orderings(rows) : rows \in {KeepLast(Concat(pl.files))}}

(***************************************************************************)
(* Crawler.  The sites it crawls, and the code of _worker and _crawl_iter  *)
(* as functions of the Crawler's fields.                                    *)
(***************************************************************************)
Sites == {"graph", "seed404", "flaky"}

\* the links extract_links finds in the page of url, in document order; the
\* pages of the site "walled" link to another host and to pages linked
\* before
Links(site, url) ==
    IF site = "seed404" THEN <<>>
    ELSE IF site = "walled"
    THEN (IF url = U_a THEN <<U_b, W_a, U_c, U_b>>
          ELSE IF url \in {U_b, U_c} THEN <<U_a, U_d>>
          ELSE <<>>)
    ELSE IF url = U_a THEN (IF site = "flaky" THEN <<U_b, W_a, U_c>>
                            ELSE <<U_b, U_c>>)
    ELSE IF url = U_b THEN <<U_d>>
    ELSE <<>>

\* how the GET of a page of the site can end
SiteOutcomes(site, url) ==
    IF site \in {"graph", "walled"} THEN {"200"}
    ELSE IF site = "seed404" THEN {"404"}
    ELSE IF url = U_a THEN {"200"}
    ELSE {"200", "404", "ConnectError"}

\* the robots.txt of the site disallows the page
Disallowed(site, url) == site = "walled" /\ url = U_b

\* how the fetch of a page can end: "disallow" when robots.txt is respected
\* and disallows the page, else as the GET of the page ends
CrawlOutcomes(cfg, url) ==
    IF cfg.respect_robots_txt /\ Disallowed(cfg.site, url) THEN {"disallow"}
    ELSE SiteOutcomes(cfg.site, url)

\* what Fetcher.fetch returns to the worker, the cache off: the response of
\* a page robots.txt disallows, or the response when the GET of every
\* attempt ends with outcome
FetchResult(url, outcome) ==
    IF outcome = "disallow"
    THEN CrawlResponse(url, 403, "", "Blocked by robots.txt", FALSE)
    ELSE IF IsStatus(outcome) THEN PageResponse(url, outcome)
    ELSE FailedResponse(url, last_error_After(outcome, None))

\* extract_data: the item of a page
extract_data(response) == [url |-> response.url, title |-> "v1"]

\* no item: the item of _worker after an ExtractionError
NoItem == [url |-> <<>>, title |-> ""]

\* the pages of the site that do not fit the schema "strict"
Mismatched(site, url) == site = "flaky" /\ url = U_b

\* extract_typed_data(response, schema) inside the try statement of
\* _worker: the typed item of the page, or NoItem when ExtractionError is
\* raised and caught
extract_typed_data(site, response, schema) ==
    IF schema = "strict" /\ Mismatched(site, response.url) THEN NoItem
    ELSE [url |-> response.url, title |-> "v1"]

\* _worker, the item of a page: by the schema when there is one
ItemOf(cfg, response) ==
    IF cfg.schema # None
    THEN extract_typed_data(cfg.site, response, cfg.schema)
    ELSE extract_data(response)

\* a hook: what its on_request and its on_response do ("keep" returns the
\* argument as BaseHook does, "inc" and "dbl" return a rewritten copy,
\* "skip" returns None), and the URLs its "skip" applies to
Hook(req, resp, urls) == [on_request |-> req, on_response |-> resp, urls |-> urls]

\* hook.on_request(request)
on_request(hook, request) ==
    CASE hook.on_request = "skip" /\ request.url \in hook.urls -> NoRequest
      [] hook.on_request = "inc" -> [request EXCEPT !.priority = @ + 1]
      [] hook.on_request = "dbl" -> [request EXCEPT !.priority = 2 * @]
      [] OTHER -> request

\* hook.on_response(response)
on_response(hook, response) ==
    CASE hook.on_response = "skip" /\ response.url \in hook.urls -> NoResponse
      [] hook.on_response = "inc" -> [response EXCEPT !.content = @ \o "+"]
      [] hook.on_response = "dbl" -> [response EXCEPT !.content = @ \o @]
      [] OTHER -> response

\* the loop of _apply_request_hooks from the hook at index i
RECURSIVE RequestHooksFrom(_, _, _)
RequestHooksFrom(hooks, i, current) ==
    IF i > Len(hooks) THEN current
    ELSE LET maybe == on_request(hooks[i], current)
         IN  IF maybe = NoRequest THEN NoRequest
             ELSE RequestHooksFrom(hooks, i + 1, maybe)

\* Crawler._apply_request_hooks
_apply_request_hooks(hooks, request) == RequestHooksFrom(hooks, 1, request)

\* the loop of _apply_response_hooks from the hook at index i
RECURSIVE ResponseHooksFrom(_, _, _)
ResponseHooksFrom(hooks, i, current) ==
    IF i > Len(hooks) THEN current
    ELSE LET maybe == on_response(hooks[i], current)
         IN  IF maybe = NoResponse THEN NoResponse
             ELSE ResponseHooksFrom(hooks, i + 1, maybe)

\* Crawler._apply_response_hooks
_apply_response_hooks(hooks, response) == ResponseHooksFrom(hooks, 1, response)

\* a call of _apply_request_hooks or _apply_response_hooks that has not
\* called a hook yet; with no hooks it returns its argument at once
NewChain(hooks, chain, arg) ==
    [hooks |-> hooks, chain |-> chain, none |-> IF chain = "request"
                                                THEN NoRequest ELSE NoResponse,
     current |-> arg, next |-> 1, calls |-> <<>>,
     done |-> hooks = <<>>, ret |-> arg]

\* one turn of the loop of the chain that goes on to the next hook when a
\* hook has returned None
ChainStep_PastNone(run) ==
    LET hook == run.hooks[run.next]
        maybe == IF run.chain = "request" THEN on_request(hook, run.current)
                 ELSE on_response(hook, run.current)
        current == IF maybe = run.none THEN run.current ELSE maybe
    IN  [run EXCEPT
            !.calls = Append(@, [hook |-> run.next, arg |-> run.current,
                                 ret |-> maybe]),
            !.current = current,
            !.next = @ + 1,
            !.done = run.next = Len(run.hooks),
            !.ret = current]

\* one turn of the loop of _apply_request_hooks / _apply_response_hooks:
\* the next hook is awaited; None ends the call, as does the last hook
ChainStep(run) ==
    LET hook == run.hooks[run.next]
        maybe == IF run.chain = "request" THEN on_request(hook, run.current)
                 ELSE on_response(hook, run.current)
        called == [run EXCEPT
                     !.calls = Append(@, [hook |-> run.next,
                                          arg |-> run.current, ret |-> maybe])]
    IN  IF maybe = run.none
        THEN [called EXCEPT !.done = TRUE, !.ret = run.none]
        ELSE [called EXCEPT !.current = maybe,
                            !.next = @ + 1,
                            !.done = run.next = Len(run.hooks),
                            !.ret = maybe]

\* Crawler.__init__ and the head of _crawl_iter, fresh start, with one
\* seed: the scheduler holds the seed, the pipeline is built
NewCrawler(cfg) ==
    [scheduler |-> SchedAdd(NewScheduler, CrawlRequest(U_a, 0, 0),
                            cfg.max_queue_size).s,
     allowed_domains |-> {DomainTable[U_a]},
     pages_crawled |-> 0,
     batch_number |-> 0,
     active_tasks |-> 0,
     stats |-> [pages_crawled |-> 0, items_extracted |-> 0, errors |-> 0,
                cache_hits |-> 0],
     item_queue |-> <<>>,
     pipeline |-> NewPipeline(cfg.batch_size, "parquet"),
     shutdown_event |-> FALSE]

\* the lists that hold the elements of a set, each once
OrdersOf(S) ==
    {f \in [1..Cardinality(S) -> S] :
        \A i, j \in 1..Cardinality(S) : i # j => f[i] # f[j]}

\* the head of _crawl_iter resuming from a checkpoint without taking over
\* its page count
ResumedCrawler_FreshCount(fresh, cp, seen_urls) ==
    [fresh EXCEPT
        !.batch_number = cp.batch_number,
        !.scheduler = restore_state(NewScheduler,
                          [seen_urls |-> seen_urls,
                           queue |-> [i \in 1..Len(cp.pending_queue) |->
                                        <<cp.pending_queue[i].priority,
                                          cp.pending_queue[i].counter,
                                          cp.pending_queue[i].request>>]])]

\* the head of _crawl_iter when resume_from is a checkpoint, on a new
\* Crawler: the counters and the scheduler are restored and no seed is
\* added; seen_urls is the list the checkpoint's set of URLs comes back as
ResumedCrawler(fresh, cp, seen_urls) ==
    [fresh EXCEPT
        !.pages_crawled = cp.pages_crawled,
        !.batch_number = cp.batch_number,
        !.scheduler = restore_state(NewScheduler,
                          [seen_urls |-> seen_urls,
                           queue |-> [i \in 1..Len(cp.pending_queue) |->
                                        <<cp.pending_queue[i].priority,
                                          cp.pending_queue[i].counter,
                                          cp.pending_queue[i].request>>]])]

\* _worker claims a slot of the page budget without counting the pages
\* other workers are fetching
BudgetLeft_IgnoresActive(pages_crawled, active_tasks, max_pages) ==
    pages_crawled < max_pages

\* _worker, the claim of a slot of the page budget
BudgetLeft(pages_crawled, active_tasks, max_pages) ==
    ~(pages_crawled + active_tasks >= max_pages)

\* _crawl_iter ends the crawl as soon as the queue is empty
CrawlFinished_IgnoresActive(is_empty, active) == is_empty

\* _crawl_iter ends the crawl while one worker still holds a request
CrawlFinished_OneActive(is_empty, active) == is_empty /\ active <= 1

\* _crawl_iter, the natural end of the crawl
CrawlFinished(is_empty, active) == is_empty /\ active = 0

\* the requests _worker makes of the links of a page, were no link left out
RECURSIVE NewRequests_AnyDomain(_, _, _, _)
NewRequests_AnyDomain(c, cfg, request, links) ==
    IF links = <<>> THEN <<>>
    ELSE <<CrawlRequest(Head(links), request.depth + 1, -request.depth - 1)>>
         \o NewRequests_AnyDomain(c, cfg, request, Tail(links))

\* the requests _worker makes of the links of a page
RECURSIVE NewRequests(_, _, _, _)
NewRequests(c, cfg, request, links) ==
    IF links = <<>> THEN <<>>
    ELSE LET link == Head(links)
             rest == NewRequests(c, cfg, request, Tail(links))
         IN  IF cfg.same_domain /\ DomainTable[link] \notin c.allowed_domains
             THEN rest
             ELSE <<CrawlRequest(link, request.depth + 1, -request.depth - 1)>>
                  \o rest

\* _worker counting the pages whose fetch has not failed
CountResponse_OnlyFetched(c, response) ==
    IF response.error # None
    THEN [c EXCEPT !.stats.errors = @ + 1]
    ELSE [c EXCEPT !.pages_crawled = @ + 1,
                   !.stats.pages_crawled = @ + 1,
                   !.stats.cache_hits = IF response.from_cache THEN @ + 1 ELSE @]

\* _worker, after fetch has returned: the page and its error or cache hit
\* are counted
CountResponse(c, response) ==
    [c EXCEPT !.pages_crawled = @ + 1,
              !.stats.pages_crawled = @ + 1,
              !.stats.errors = IF response.error # None THEN @ + 1 ELSE @,
              !.stats.cache_hits = IF response.from_cache THEN @ + 1 ELSE @]

\* _worker adding the links of a page whatever the depth of its request
Extract_AnyDepth(c, cfg, request, response) ==
    LET item == ItemOf(cfg, response)
        extracted == IF item = NoItem THEN c
                     ELSE [c EXCEPT
                             !.pipeline = PipelineAdd(@, item),
                             !.item_queue = Append(@, item),
                             !.stats.items_extracted = @ + 1]
        linked == [extracted EXCEPT !.scheduler =
                      SchedAddMany(@, NewRequests(c, cfg, request,
                                       Links(cfg.site, response.url)),
                                   cfg.max_queue_size).s]
    IN  IF response.status_code = 200 /\ response.content # ""
        THEN linked ELSE c

\* _worker, what it does with the response the hooks have let through: the
\* item of a 200 with content, when there is one, goes to the pipeline and
\* to the item queue, and the links of the page are added to the scheduler
Extract(c, cfg, request, response) ==
    LET item == ItemOf(cfg, response)
        extracted == IF item = NoItem THEN c
                     ELSE [c EXCEPT
                             !.pipeline = PipelineAdd(@, item),
                             !.item_queue = Append(@, item),
                             !.stats.items_extracted = @ + 1]
        linked == IF request.depth < cfg.max_depth
                  THEN [extracted EXCEPT !.scheduler =
                          SchedAddMany(@, NewRequests(c, cfg, request,
                                           Links(cfg.site, response.url)),
                                       cfg.max_queue_size).s]
                  ELSE extracted
    IN  IF response.status_code = 200 /\ response.content # ""
        THEN linked ELSE c

\* _worker without its finally clause: the slot is never given back
ReleaseSlot_Keeps(c) == c

\* the finally clause of _worker: the slot of the page budget is given back
ReleaseSlot(c) == [c EXCEPT !.active_tasks = @ - 1]

\* _worker giving the slot of a skipped request back in the try statement
\* and again in the finally clause
SkipRequest_ReleasesTwice(c) == ReleaseSlot(ReleaseSlot(c))

\* _worker when the request hooks return None: continue, through the
\* finally clause
SkipRequest(c) == ReleaseSlot(c)

\* _worker extracting from the fetched response when the hooks have
\* returned None
FinishResponse_IgnoresVeto(c, cfg, request, response, hooked_response) ==
    ReleaseSlot(Extract(c, cfg, request,
                        IF hooked_response # NoResponse THEN hooked_response
                        ELSE response))

\* _worker from the return of the response hooks to the end of the try
\* statement: None from the hooks leaves the page counted and nothing else
FinishResponse(c, cfg, request, response, hooked_response) ==
    ReleaseSlot(IF hooked_response # NoResponse
                THEN Extract(c, cfg, request, hooked_response)
                ELSE c)

\* _worker from the return of fetch to the end of the try statement, when
\* no hook suspends it
ProcessResponse(c, cfg, request, response) ==
    FinishResponse(CountResponse(c, response), cfg, request, response,
                   _apply_response_hooks(cfg.hooks, response))

\* no file at checkpoint_path
NoCheckpoint ==
    [exists |-> FALSE, pages_crawled |-> 0, seen_urls |-> {},
     pending_queue |-> <<>>, batch_number |-> 0]

\* create_checkpoint: the checkpoint of the counters, the set of seen URLs
\* and the entries of the queue
create_checkpoint(pages_crawled, seen_urls, pending_queue, batch_number) ==
    [exists |-> TRUE, pages_crawled |-> pages_crawled, seen_urls |-> seen_urls,
     pending_queue |-> [i \in 1..Len(pending_queue) |->
                          [priority |-> pending_queue[i][1],
                           counter |-> pending_queue[i][2],
                           request |-> pending_queue[i][3]]],
     batch_number |-> batch_number]

\* _save_checkpoint: the file at checkpoint_path after it
_save_checkpoint(file, c, cfg) ==
    IF cfg.checkpoint_path = None THEN file
    ELSE LET state == get_state(c.scheduler)
         IN  create_checkpoint(c.pages_crawled,
                               {state.seen_urls[i] : i \in 1..Len(state.seen_urls)},
                               state.queue, c.batch_number)

\* delete_checkpoint: the file at checkpoint_path after it
delete_checkpoint(file) == NoCheckpoint

\* _crawl_iter, completed: the crawl counts as complete
Completed(c, cfg) ==
    \/ c.pages_crawled >= cfg.max_pages
    \/ SchedIsEmpty(c.scheduler) /\ c.active_tasks = 0

\* _crawl_iter, the periodic checkpoint is due
CheckpointDue(c, cfg, last) ==
    /\ cfg.checkpoint_interval > 0
    /\ c.pages_crawled - last >= cfg.checkpoint_interval

\* gather returns at once, whatever the workers do
Gathered_NoWait(ws) == TRUE

\* asyncio.gather(*workers, return_exceptions=True) returns when every
\* worker task has ended
Gathered(ws) == \A w \in DOMAIN ws : ws[w].pc \in {"done", "none"}

\* _worker goes on with its loop whatever the shutdown event says
StopsAt_Never(shutdown_event) == FALSE

\* _worker, the condition of its loop: it ends when the event is set
StopsAt(shutdown_event) == shutdown_event

\* _worker from the head of its loop to its next suspension: the sleep
\* ("idle"), the request hooks ("hooking") or, without hooks, the fetch
\* ("fetching") of the request it took, or its end
LoopHead(c, cfg) ==
    IF StopsAt(c.shutdown_event)
    THEN [c |-> c, pc |-> "done", request |-> NoRequest]
    ELSE LET g == SchedGetNowait(c.scheduler)
             took == [c EXCEPT !.scheduler = g.s]
         IN  IF g.ret = NoRequest
             THEN [c |-> c,
                   pc |-> IF c.pages_crawled >= cfg.max_pages THEN "done"
                          ELSE "idle",
                   request |-> NoRequest]
             ELSE IF ~BudgetLeft(c.pages_crawled, c.active_tasks, cfg.max_pages)
             THEN [c |-> took, pc |-> "done", request |-> NoRequest]
             ELSE [c |-> [took EXCEPT !.active_tasks = @ + 1],
                   pc |-> IF cfg.hooks = <<>> THEN "fetching" ELSE "hooking",
                   request |-> g.ret]

(***************************************************************************)
(* State.                                                                   *)
(***************************************************************************)
VARIABLES
    ccfg,         \* the configuration of the crawl of Spec, and its site
    crawler,      \* the fields of the Crawler, its scheduler and pipeline
    worker,       \* per worker task: where it is, its request, cancel() called
    mainpc,       \* where _crawl_iter is
    yielded,      \* history: the items _crawl_iter has yielded
    coutput,      \* the records of the output file of the crawl
    gets,         \* history: the fetches that returned, by url
    last_checkpoint_count, \* the local of _crawl_iter of that name
    checkpoint_file, \* the checkpoint in the file at checkpoint_path
    resume_from,  \* Crawler._resume_from: the checkpoint the run resumes
    hookrun,      \* the call of a hook chain of SpecHooks, and its history
    ended,        \* history: what ended the loop of _crawl_iter
    deleted,      \* history: delete_checkpoint has been called
    fconfig,      \* the CrawlConfig of the Fetcher of SpecFetch
    ftask,        \* per caller of fetch: where it is, its locals, its result
    robots_cache, \* Fetcher._robots_cache, oldest insertion first
    rcache,       \* the rows of the ResponseCache, by url
    buckets,      \* Fetcher._domain_buckets: the tokens taken, by domain
    fetches,      \* history: the calls of fetch started
    responses,    \* the table of the ResponseCache of SpecCache, by url
    utcnow,       \* datetime.now(timezone.utc) in SpecCache, in ticks
    cthread,      \* per thread of SpecCache: its call, its locals, its result
    latest,       \* history: what the last set or delete call has left for
                  \* the url: the row written, or no row
    pipeline,     \* the Pipeline of SpecPipe
    output,       \* the records of the file at output_path
    consolidated, \* whether consolidate() has run
    written,      \* history: the items handed to add/add_many, oldest first
    bucket,       \* the TokenBucket of SpecBucket
    now,          \* time.monotonic(), in ticks since the bucket was built
    caller,       \* per caller of acquire: where it is and when its sleep ends
    acquired,     \* history: the acquire calls that have returned
    exhausted,    \* history: an acquire has found less than one token
    exhaustedAt,  \* history: when that first happened
    acquiredSince,\* history: the acquire calls that returned after that
    sched,        \* the scheduler under test
    rsched,       \* a fresh Scheduler that restore_state was called on
    restored,     \* whether rsched has been restored from sched
    lastOp,       \* the last scheduler call: its name, argument and results
    pending,      \* history: the accepted, not yet returned requests, oldest first
    acceptedURLs, \* history: the URLs of the requests add/add_many accepted
    dropped,      \* history: the normalized URLs turned away by a full queue:
                  \* those not accepted since, and those accepted later
    waiter        \* per caller of get / wait_not_empty / get_nowait in
                  \* SpecWake: its call, where it is, what it returned

schedVars ==
    <<sched, rsched, restored, lastOp, pending, acceptedURLs, dropped, waiter>>

bucketVars ==
    <<bucket, now, caller, acquired, exhausted, exhaustedAt, acquiredSince>>

pipeVars == <<pipeline, output, consolidated, written>>

cacheVars == <<responses, utcnow, cthread, latest>>

fetchVars ==
    <<fconfig, ftask, robots_cache, rcache, buckets, fetches, cacheVars>>

checkpointVars ==
    <<last_checkpoint_count, checkpoint_file, resume_from, ended, deleted>>

crawlVars ==
    <<ccfg, crawler, worker, mainpc, yielded, coutput, gets, checkpointVars,
      hookrun>>

vars == <<schedVars, bucketVars, pipeVars, fetchVars, crawlVars>>

(***************************************************************************)
(* SpecBucket: callers of acquire() on one bucket, and the clock.           *)
(***************************************************************************)
Callers == 1..MaxCallers

\* the two concurrent waiters of SpecWait
Waiters == {1, 2}

\* a caller that is not inside acquire
IdleCaller == [pc |-> "idle", wake |-> 0]

\* a caller of SpecWait that is not inside acquire.  Besides where it is and
\* when its sleep ends, it carries the history of its call: the passes that
\* found no token (rounds), the tokens other callers took since the first
\* of them (others), the sleeps it was told to take (slept, and the first
\* of them, first_wait), and the first waits of the callers whose first
\* sleep ran while its own first sleep did (cowaits).
IdleWaiter ==
    [pc |-> "idle", wake |-> 0, rounds |-> 0, others |-> 0, slept |-> 0,
     first_wait |-> 0, cowaits |-> {}]

\* the waiters other than c that are suspended in the first sleep of their
\* acquire
InFirstSleepBut(c) ==
    {d \in Waiters \ {c} : caller[d].pc = "sleeping" /\ caller[d].rounds = 1}

\* the waiters after a pass of c with result r at time t
WaitersAfter(c, r, t) ==
    [d \in Waiters |->
        IF d = c
        THEN IF r.ok THEN IdleWaiter
             ELSE [pc |-> "sleeping", wake |-> t + r.wait_time,
                   rounds |-> caller[c].rounds + 1,
                   others |-> caller[c].others,
                   slept |-> caller[c].slept + r.wait_time,
                   first_wait |-> IF caller[c].rounds = 0 THEN r.wait_time
                                  ELSE caller[c].first_wait,
                   cowaits |->
                       IF caller[c].rounds = 0
                       THEN {caller[e].first_wait : e \in InFirstSleepBut(c)}
                       ELSE caller[c].cowaits]
        ELSE IF caller[d].pc # "sleeping" THEN caller[d]
        ELSE IF r.ok THEN [caller[d] EXCEPT !.others = @ + 1]
        ELSE IF caller[c].rounds = 0 /\ d \in InFirstSleepBut(c)
        THEN [caller[d] EXCEPT !.cowaits = @ \cup {r.wait_time}]
        ELSE caller[d]]

BucketIdle ==
    /\ bucket = NewBucket(1, 0)
    /\ now = 0
    /\ caller = [c \in Callers |-> IdleCaller]
    /\ acquired = 0
    /\ exhausted = FALSE
    /\ exhaustedAt = 0
    /\ acquiredSince = 0

\* time passes
Tick ==
    /\ now < MaxTime
    /\ now' = now + 1
    /\ UNCHANGED <<bucket, caller, acquired, exhausted, exhaustedAt,
                   acquiredSince>>

\* a caller may run a pass of the loop of acquire: it enters acquire, or
\* the sleep of its previous pass is over; `async with self._lock` suspends
\* it while another task holds the lock
MayPass(c) ==
    /\ caller[c].pc = "idle" \/ (caller[c].pc = "sleeping" /\ now >= caller[c].wake)
    /\ bucket.lock = 0

\* what a pass of caller c with result r does to the bucket, and to the
\* history of the bucket
Passed(c, r) ==
    /\ bucket' = [r.b EXCEPT !.lock = IF r.holds_lock THEN c ELSE 0]
    /\ acquired' = IF r.ok THEN acquired + 1 ELSE acquired
    /\ exhausted' = (exhausted \/ ~r.ok)
    /\ exhaustedAt' = IF ~exhausted /\ ~r.ok THEN now ELSE exhaustedAt
    /\ acquiredSince' =
           IF exhausted /\ r.ok THEN acquiredSince + 1 ELSE acquiredSince
    /\ UNCHANGED now

\* caller c runs one pass of the loop of acquire
Acquire(c) ==
    /\ MayPass(c)
    /\ \E r \in {AcquireOnce(bucket, now)} :
           /\ Passed(c, r)
           /\ caller' = [caller EXCEPT ![c] =
                    IF r.ok THEN IdleCaller
                    ELSE [pc |-> "sleeping", wake |-> now + r.wait_time]]

\* waiter c of SpecWait runs one pass of the loop of acquire
WaitAcquire(c) ==
    /\ MayPass(c)
    /\ \E r \in {AcquireOnce(bucket, now)} :
           /\ Passed(c, r)
           /\ caller' = WaitersAfter(c, r, now)

(***************************************************************************)
(* SpecSched: calls on one Scheduler, and on a second one restored from it. *)
(***************************************************************************)
\* the requests of a queue, in list order
QueueRequests(queue) == [i \in 1..Len(queue) |-> queue[i][3]]

\* whether request r is one of seq
InSeq(seq, r) == \E i \in 1..Len(seq) : seq[i] = r

\* the requests of rs that a call put into the queue, in the order of rs
AcceptedOf(rs, before, after) ==
    LET old == QueueRequests(before.queue)
        new == QueueRequests(after.queue)
        Taken(i) == /\ InSeq(new, rs[i])
                    /\ ~InSeq(old, rs[i])
                    /\ \A j \in 1..(i - 1) : rs[j] # rs[i]
        RECURSIVE Pick(_)
        Pick(i) == IF i > Len(rs) THEN <<>>
                   ELSE (IF Taken(i) THEN <<rs[i]>> ELSE <<>>) \o Pick(i + 1)
    IN  Pick(1)

\* the pending request a get must return: the greatest priority, and the
\* earliest accepted among those
RECURSIVE FirstBest(_, _)
FirstBest(seq, i) ==
    IF i > Len(seq) THEN NoRequest
    ELSE IF \A j \in 1..Len(seq) : seq[j].priority <= seq[i].priority THEN seq[i]
    ELSE FirstBest(seq, i + 1)

\* seq without its first occurrence of r
RECURSIVE RemoveFirst(_, _)
RemoveFirst(seq, r) ==
    IF seq = <<>> THEN <<>>
    ELSE IF Head(seq) = r THEN Tail(seq)
    ELSE <<Head(seq)>> \o RemoveFirst(Tail(seq), r)

SeqToSet(seq) == {seq[i] : i \in 1..Len(seq)}

\* the history of the full-queue rejections after a call with requests rs:
\* a normalized URL of rs that is not in the seen-set after the call was
\* turned away by a full queue; one turned away earlier that is in the
\* seen-set now has been accepted by this call
DroppedAfter(before, rs, after) ==
    [waiting |->
         {n \in before.waiting \cup {NormTable[rs[i].url] : i \in 1..Len(rs)} :
             ~InSeen(after.seen, n)},
     admitted |->
         before.admitted \cup {n \in before.waiting : InSeen(after.seen, n)}]

\* the callers of SpecWake, and a caller that is in no call
Getters == 1..MaxGetters
NoCall ==
    [op |-> "none", pc |-> "idle", ret |-> NoRequest,
     resumed |-> FALSE]    \* history: the call was suspended and resumed

SchedIdle ==
    /\ sched = NewScheduler
    /\ rsched = NewScheduler
    /\ restored = FALSE
    /\ lastOp = [op |-> "init", ret |-> NoRequest,
                 rret |-> NoRequest, expected |-> NoRequest]
    /\ pending = <<>>
    /\ acceptedURLs = {}
    /\ dropped = [waiting |-> {}, admitted |-> {}]
    /\ waiter = [c \in Getters |-> NoCall]

PipeIdle ==
    /\ pipeline = NewPipeline(1, "parquet")
    /\ output = <<>>
    /\ consolidated = FALSE
    /\ written = <<>>

Fetchers == 1..MaxFetchers

IdleTask ==
    [pc |-> "idle", url |-> <<>>, attempt |-> 0, last_error |-> None,
     response |-> NoResponse, log |-> <<>>,
     raised |-> FALSE, failures |-> 0, last_exc |-> None,
     disallowed |-> FALSE, delays |-> <<>>, again |-> FALSE]

(***************************************************************************)
(* The ResponseCache on its own.  get, set and delete run _get_sync,        *)
(* _set_sync and _delete_sync in threads of the default executor            *)
(* (asyncio.to_thread), so calls made by concurrent fetches overlap; the    *)
(* statements under self._lock are atomic with respect to each other.       *)
(***************************************************************************)
\* ttl_seconds, in ticks of the clock
CacheTTL == 1

\* the urls get and delete are called with, and those set is called with
CacheURLs == {U_a, U_b}
StoredURLs == {U_a}
CacheCallers == {1, 2}

\* what set is called with: status_code and content
CacheWrites == {[status_code |-> 200, content |-> "old"],
                [status_code |-> 404, content |-> "new"]}

\* a row of the table responses, and no row (fetchone() returns None)
Row(status_code, content, cached_at) ==
    [present |-> TRUE, status_code |-> status_code, content |-> content,
     cached_at |-> cached_at]
NoRow == [present |-> FALSE, status_code |-> 0, content |-> "", cached_at |-> 0]

\* a thread that is in no call
NoCacheCall ==
    [op |-> "none", pc |-> "idle", url |-> <<>>, row |-> NoRow, ret |-> NoRow]

\* datetime.now(timezone.utc) - cached_at > self.ttl
Expired(row, at) == at - row.cached_at > CacheTTL

\* INSERT OR IGNORE: a row of the url that is there already is kept
Upsert_KeepsOld(table, url, row) ==
    IF table[url].present THEN table ELSE [table EXCEPT ![url] = row]

\* INSERT OR REPLACE INTO responses, url_hash being the primary key
Upsert(table, url, row) == [table EXCEPT ![url] = row]

\* DELETE FROM responses WHERE url_hash = ?
DeleteRow(table, url) == [table EXCEPT ![url] = NoRow]

CacheIdle ==
    /\ responses = [u \in CacheURLs |-> NoRow]
    /\ utcnow = 0
    /\ cthread = [t \in CacheCallers |-> NoCacheCall]
    /\ latest = [u \in CacheURLs |-> NoRow]

FetchIdle ==
    /\ fconfig = [respect_robots_txt |-> FALSE, cache_enabled |-> FALSE,
                  max_retries |-> 0, retry_base_delay |-> 1,
                  max_requests_per_second |-> FetchRates.max_requests_per_second,
                  domain_rate_limits |-> FetchRates.domain_rate_limits]
    /\ ftask = [f \in Fetchers |-> IdleTask]
    /\ robots_cache = <<>>
    /\ rcache = [u \in FetchURLs |-> NoEntry]
    /\ buckets = [d \in Domains |-> NoBucket]
    /\ fetches = 0
    /\ CacheIdle

Workers == 1..MaxWorkers

\* the configurations of Spec: crawls without a checkpoint
CrawlConfigs ==
    [site : Sites, max_pages : {1, 2, 10}, max_depth : {1, 2},
     workers : Workers, batch_size : {MaxBatchSize},
     max_queue_size : {MaxQueueSize}, same_domain : {TRUE},
     checkpoint_interval : {0}, checkpoint_path : {None}, hooks : {<<>>},
     respect_robots_txt : {FALSE},
     schema : {None}]

\* the configurations of SpecStop: crawls with a checkpoint path, with and
\* without periodic checkpoints
StopConfigs ==
    [site : {"graph"}, max_pages : {2, 10}, max_depth : {2},
     workers : Workers, batch_size : {MaxBatchSize},
     max_queue_size : {MaxQueueSize}, same_domain : {TRUE},
     checkpoint_interval : {0, 1}, checkpoint_path : {"cp"}, hooks : {<<>>},
     respect_robots_txt : {FALSE},
     schema : {None}]

\* _crawl_iter has created the workers of a fresh crawl
CrawlStarted(cfg) ==
    /\ ccfg = cfg
    /\ crawler = NewCrawler(cfg)
    /\ worker = [w \in Workers |->
                   [pc |-> IF w <= cfg.workers THEN "idle" ELSE "none",
                    request |-> NoRequest, response |-> NoResponse,
                    cancelled |-> FALSE]]
    /\ mainpc = "loop"
    /\ yielded = <<>>
    /\ coutput = <<>>
    /\ gets = [u \in CrawlURLs |-> 0]
    /\ last_checkpoint_count = 0
    /\ checkpoint_file = NoCheckpoint
    /\ resume_from = NoCheckpoint
    /\ ended = "running"
    /\ deleted = FALSE

\* no hook chain is running
HookIdle == hookrun = NewChain(<<>>, "request", NoRequest)

IdleConfig ==
    [site |-> "graph", max_pages |-> 1, max_depth |-> 1,
     workers |-> 1, batch_size |-> 1, max_queue_size |-> 1,
     same_domain |-> TRUE, checkpoint_interval |-> 0,
     checkpoint_path |-> None, hooks |-> <<>>, respect_robots_txt |-> FALSE,
     schema |-> None]

CrawlIdle == CrawlStarted(IdleConfig) /\ HookIdle

SchedInit == SchedIdle /\ BucketIdle /\ PipeIdle /\ FetchIdle /\ CrawlIdle

\* the same call on the restored scheduler, which is left alone before the
\* restore
OnRestored(r) == IF restored THEN r ELSE [s |-> rsched, ret |-> r.ret]

\* await scheduler.add(request)
Add(request) ==
    /\ sched.counter < MaxAdds
    /\ LET r == SchedAdd(sched, request, MaxQueueSize)
           rr == OnRestored(SchedAdd(rsched, request, MaxQueueSize))
           took == AcceptedOf(<<request>>, sched, r.s)
       IN  /\ sched' = r.s
           /\ rsched' = rr.s
           /\ lastOp' = [op |-> "add", ret |-> r.ret,
                         rret |-> rr.ret, expected |-> NoRequest]
           /\ pending' = pending \o took
           /\ acceptedURLs' = acceptedURLs \cup {q.url : q \in SeqToSet(took)}
           /\ dropped' = DroppedAfter(dropped, <<request>>, r.s)
    /\ UNCHANGED <<restored, waiter,
                   bucketVars, pipeVars, fetchVars, crawlVars>>

\* await scheduler.add_many(requests)
AddMany(requests) ==
    /\ sched.counter + Len(requests) <= MaxAdds
    /\ LET r == SchedAddMany(sched, requests, MaxQueueSize)
           rr == OnRestored(SchedAddMany(rsched, requests, MaxQueueSize))
           took == AcceptedOf(requests, sched, r.s)
       IN  /\ sched' = r.s
           /\ rsched' = rr.s
           /\ lastOp' = [op |-> "add_many", ret |-> r.ret,
                         rret |-> rr.ret, expected |-> NoRequest]
           /\ pending' = pending \o took
           /\ acceptedURLs' = acceptedURLs \cup {q.url : q \in SeqToSet(took)}
           /\ dropped' = DroppedAfter(dropped, requests, r.s)
    /\ UNCHANGED <<restored, waiter,
                   bucketVars, pipeVars, fetchVars, crawlVars>>

\* the pop shared by get and get_nowait
Pop(op) ==
    LET r == SchedGetNowait(sched)
        rr == OnRestored(SchedGetNowait(rsched))
    IN  /\ sched' = r.s
        /\ rsched' = rr.s
        /\ lastOp' = [op |-> op, ret |-> r.ret, rret |-> rr.ret,
                      expected |-> FirstBest(pending, 1)]
        /\ pending' = RemoveFirst(pending, r.ret)
        /\ UNCHANGED <<restored, acceptedURLs, dropped, waiter,
                       bucketVars, pipeVars, fetchVars, crawlVars>>

\* await scheduler.get(), in a state where it does not suspend
Get == sched.queue # <<>> /\ Pop("get")

\* await scheduler.get_nowait()
GetNowait == Pop("get_nowait")

\* fresh = Scheduler(config); fresh.restore_state(scheduler.get_state())
Restore ==
    /\ ~restored
    /\ restored' = TRUE
    /\ rsched' = restore_state(NewScheduler, get_state(sched))
    /\ lastOp' = [op |-> "restore", ret |-> NoRequest,
                  rret |-> NoRequest, expected |-> NoRequest]
    /\ UNCHANGED <<sched, pending, acceptedURLs, dropped, waiter,
                   bucketVars, pipeVars, fetchVars, crawlVars>>

Batches == {<<>>} \cup {<<a, b>> : a \in BatchRequests, b \in BatchRequests}

SchedNext ==
    \/ \E request \in SchedRequests : Add(request)
    \/ \E requests \in Batches : AddMany(requests)
    \/ Get
    \/ GetNowait
    \/ Restore

SpecSched == SchedInit /\ [][SchedNext]_vars

(***************************************************************************)
(* SpecSeen: a long run of adds on one Scheduler, past the capacity of the  *)
(* seen-set.  The pages are alike, so a page is first offered only after    *)
(* the pages before it: page i once i requests have been accepted.          *)
(***************************************************************************)
SeenRequest(i) == CrawlRequest(SeenURL(i), 0, 0)

\* await scheduler.add(request)
SeenAdd(i) ==
    /\ sched.counter < MaxSeenAdds
    /\ i <= sched.counter
    /\ \E r \in {SchedAdd(sched, SeenRequest(i), MaxQueueSize)} :
           /\ sched' = r.s
           /\ lastOp' = [op |-> "add", requests |-> <<SeenRequest(i)>>,
                         ret |-> IF r.ret THEN 1 ELSE 0]
    /\ UNCHANGED <<rsched, restored, pending, acceptedURLs, dropped, waiter,
                   bucketVars, pipeVars, fetchVars, crawlVars>>

\* await scheduler.add_many(requests)
SeenAddMany(requests) ==
    /\ sched.counter + Len(requests) <= MaxSeenAdds
    /\ \E r \in {SchedAddMany(sched, requests, MaxQueueSize)} :
           /\ sched' = r.s
           /\ lastOp' = [op |-> "add_many", requests |-> requests,
                         ret |-> r.ret]
    /\ UNCHANGED <<rsched, restored, pending, acceptedURLs, dropped, waiter,
                   bucketVars, pipeVars, fetchVars, crawlVars>>

\* await scheduler.get_nowait()
SeenGetNowait ==
    /\ \E r \in {SchedGetNowait(sched)} :
           /\ sched' = r.s
           /\ lastOp' = [op |-> "get_nowait", requests |-> <<r.ret>>,
                         ret |-> 0]
    /\ UNCHANGED <<rsched, restored, pending, acceptedURLs, dropped, waiter,
                   bucketVars, pipeVars, fetchVars, crawlVars>>

\* the batches of SpecSeen: the next new page with the one after it, or
\* with the oldest page
SeenBatches(n) ==
    {<<SeenRequest(i), SeenRequest(j)>> :
        i \in {n} \cap SeenPages, j \in {0, n + 1} \cap SeenPages}

SeenNext ==
    \/ \E i \in SeenPages : SeenAdd(i)
    \/ \E requests \in SeenBatches(sched.counter) : SeenAddMany(requests)
    \/ SeenGetNowait

SpecSeen == SchedInit /\ [][SeenNext]_vars

(***************************************************************************)
(* SpecSignal: add, add_many, get, get_nowait and restore_state on one      *)
(* Scheduler, in any order; each call runs to its end before the next.      *)
(***************************************************************************)
\* the states restore_state is called with: what get_state gave on an
\* empty scheduler and on one that held a request
SavedStates ==
    {get_state(NewScheduler)}
    \cup {get_state(SchedAdd(NewScheduler, request, MaxQueueSize).s) :
            request \in BatchRequests}

\* await scheduler.add(request)
SignalAdd(request) ==
    /\ sched.counter < MaxAdds
    /\ \E r \in {SchedAdd(sched, request, MaxQueueSize)} :
           /\ sched' = r.s
           /\ lastOp' = [op |-> "add", spins |-> FALSE]
    /\ UNCHANGED <<rsched, restored, pending, acceptedURLs, dropped, waiter,
                   bucketVars, pipeVars, fetchVars, crawlVars>>

\* await scheduler.add_many(requests)
SignalAddMany(requests) ==
    /\ sched.counter + Len(requests) <= MaxAdds
    /\ \E r \in {SchedAddMany(sched, requests, MaxQueueSize)} :
           /\ sched' = r.s
           /\ lastOp' = [op |-> "add_many", spins |-> FALSE]
    /\ UNCHANGED <<rsched, restored, pending, acceptedURLs, dropped, waiter,
                   bucketVars, pipeVars, fetchVars, crawlVars>>

\* await scheduler.get(), up to its return or its first turn without one:
\* with a request pending it pops it; with none and the event set, wait()
\* returns at once and the loop goes round again without a suspension;
\* with none and the event clear the caller is suspended (SpecWake)
SignalGet ==
    /\ sched.queue # <<>> \/ sched.not_empty
    /\ \E r \in {SchedGetNowait(sched)} :
           /\ sched' = r.s
           /\ lastOp' = [op |-> "get", spins |-> r.ret = NoRequest]
    /\ UNCHANGED <<rsched, restored, pending, acceptedURLs, dropped, waiter,
                   bucketVars, pipeVars, fetchVars, crawlVars>>

\* await scheduler.get_nowait()
SignalGetNowait ==
    /\ \E r \in {SchedGetNowait(sched)} :
           /\ sched' = r.s
           /\ lastOp' = [op |-> "get_nowait", spins |-> FALSE]
    /\ UNCHANGED <<rsched, restored, pending, acceptedURLs, dropped, waiter,
                   bucketVars, pipeVars, fetchVars, crawlVars>>

\* scheduler.restore_state(state)
SignalRestore(state) ==
    /\ sched' = restore_state(sched, state)
    /\ lastOp' = [op |-> "restore_state", spins |-> FALSE]
    /\ UNCHANGED <<rsched, restored, pending, acceptedURLs, dropped, waiter,
                   bucketVars, pipeVars, fetchVars, crawlVars>>

SignalNext ==
    \/ \E request \in BatchRequests : SignalAdd(request)
    \/ \E requests \in Batches : SignalAddMany(requests)
    \/ SignalGet
    \/ SignalGetNowait
    \/ \E state \in SavedStates : SignalRestore(state)

SpecSignal == SchedInit /\ [][SignalNext]_vars

(***************************************************************************)
(* SpecBatch: add, add_many with batches of every make-up, and get_nowait   *)
(* on one Scheduler; the last call is kept with the scheduler it was made   *)
(* on.                                                                      *)
(***************************************************************************)
\* the requests of SpecBatch: four pages, one of them under two URLs that
\* normalize alike; the batches of none, one and two of them, and of three
\* of the first two pages
BatchPool == BatchRequests \cup {CrawlRequest(U_c, 0, 0)}
TriplePool ==
    {CrawlRequest(U_a, 0, 0), CrawlRequest(U_aSlash, 0, 5),
     CrawlRequest(U_b, 0, 0)}
BatchLists ==
    {<<>>} \cup {<<a>> : a \in BatchPool}
           \cup {<<a, b>> : a \in BatchPool, b \in BatchPool}
           \cup {<<a, b, c>> : a \in TriplePool, b \in TriplePool,
                               c \in TriplePool}

\* await scheduler.add(request)
BatchAdd(request) ==
    /\ sched.counter < MaxAdds
    /\ \E r \in {SchedAdd(sched, request, MaxQueueSize)} :
           /\ sched' = r.s
           /\ lastOp' = [op |-> "add", requests |-> <<request>>,
                         before |-> sched, ret |-> IF r.ret THEN 1 ELSE 0]
    /\ UNCHANGED <<rsched, restored, pending, acceptedURLs, dropped, waiter,
                   bucketVars, pipeVars, fetchVars, crawlVars>>

\* await scheduler.add_many(requests)
BatchAddMany(requests) ==
    /\ sched.counter < MaxAdds
    /\ \E r \in {SchedAddMany(sched, requests, MaxQueueSize)} :
           /\ sched' = r.s
           /\ lastOp' = [op |-> "add_many", requests |-> requests,
                         before |-> sched, ret |-> r.ret]
    /\ UNCHANGED <<rsched, restored, pending, acceptedURLs, dropped, waiter,
                   bucketVars, pipeVars, fetchVars, crawlVars>>

\* await scheduler.get_nowait()
BatchGetNowait ==
    /\ \E r \in {SchedGetNowait(sched)} :
           /\ sched' = r.s
           /\ lastOp' = [op |-> "get_nowait", requests |-> <<>>,
                         before |-> sched, ret |-> 0]
    /\ UNCHANGED <<rsched, restored, pending, acceptedURLs, dropped, waiter,
                   bucketVars, pipeVars, fetchVars, crawlVars>>

BatchNext ==
    \/ \E request \in BatchPool : BatchAdd(request)
    \/ \E requests \in BatchLists : BatchAddMany(requests)
    \/ BatchGetNowait

SpecBatch == SchedInit /\ [][BatchNext]_vars

(***************************************************************************)
(* SpecWake: callers of get, wait_not_empty and get_nowait on one Scheduler *)
(* while requests are added.  asyncio.Event.wait returns at once when the   *)
(* event is set and suspends the caller on a future otherwise;              *)
(* asyncio.Event.set, on an event that is not set, resolves the future of   *)
(* every suspended caller, which the event loop then runs again.  The lock  *)
(* is never held across a suspension, so taking it never suspends.          *)
(***************************************************************************)
\* the page add is called with next, a page accepted before (a duplicate),
\* and the batches of add_many
WakeRequests(n) == {SeenRequest(i) : i \in {0, n} \cap SeenPages}
WakeBatches(n) ==
    {<<>>} \cup {<<SeenRequest(n), SeenRequest(j)>> : j \in {0, n + 1}}

\* asyncio.Event.set leaving the suspended callers suspended
Woken_Nobody(w, before, after) == w

\* asyncio.Event.set as add and add_many reach it: the callers suspended on
\* the event are made ready to run when the event goes from clear to set
Woken(w, before, after) ==
    [c \in Getters |->
        IF ~before.not_empty /\ after.not_empty /\ w[c].pc = "waiting"
        THEN [w[c] EXCEPT !.pc = "woken", !.resumed = TRUE]
        ELSE w[c]]

\* await self._not_empty.wait() by a caller: gone through when the event is
\* set, a suspension otherwise
EventWait(call, s, through) ==
    IF s.not_empty THEN through
    ELSE [call EXCEPT !.pc = "waiting"]

\* one turn of the loop of Scheduler.get, up to its return or suspension
GetTurn(call, s) ==
    IF s.queue # <<>>
    THEN [s |-> SchedGetNowait(s).s,
          call |-> [call EXCEPT !.pc = "returned",
                                !.ret = SchedGetNowait(s).ret]]
    ELSE [s |-> s, call |-> EventWait(call, s, [call EXCEPT !.pc = "woken"])]

\* await scheduler.add(request), by a task that is not one of the callers
WakeAdd(request) ==
    /\ sched.counter < MaxAdds
    /\ \E r \in {SchedAdd(sched, request, MaxQueueSize)} :
           /\ sched' = r.s
           /\ waiter' = Woken(waiter, sched, r.s)
    /\ UNCHANGED <<rsched, restored, lastOp, pending, acceptedURLs, dropped,
                   bucketVars, pipeVars, fetchVars, crawlVars>>

\* await scheduler.add_many(requests), by a task that is not one of the
\* callers
WakeAddMany(requests) ==
    /\ sched.counter + Len(requests) <= MaxAdds
    /\ \E r \in {SchedAddMany(sched, requests, MaxQueueSize)} :
           /\ sched' = r.s
           /\ waiter' = Woken(waiter, sched, r.s)
    /\ UNCHANGED <<rsched, restored, lastOp, pending, acceptedURLs, dropped,
                   bucketVars, pipeVars, fetchVars, crawlVars>>

\* caller c calls scheduler.get(): it returns a request or suspends
CallGet(c) ==
    /\ waiter[c].pc = "idle"
    /\ \E r \in {GetTurn([NoCall EXCEPT !.op = "get"], sched)} :
           /\ sched' = r.s
           /\ waiter' = [waiter EXCEPT ![c] = r.call]
    /\ UNCHANGED <<rsched, restored, lastOp, pending, acceptedURLs, dropped,
                   bucketVars, pipeVars, fetchVars, crawlVars>>

\* caller c calls scheduler.wait_not_empty(): it returns or suspends
CallWaitNotEmpty(c) ==
    /\ waiter[c].pc = "idle"
    /\ waiter' = [waiter EXCEPT ![c] =
                     EventWait([NoCall EXCEPT !.op = "wait_not_empty"], sched,
                               [NoCall EXCEPT !.op = "wait_not_empty",
                                              !.pc = "returned"])]
    /\ UNCHANGED <<sched, rsched, restored, lastOp, pending, acceptedURLs,
                   dropped, bucketVars, pipeVars, fetchVars, crawlVars>>

\* caller c calls scheduler.get_nowait()
CallGetNowait(c) ==
    /\ waiter[c].pc = "idle"
    /\ \E r \in {SchedGetNowait(sched)} :
           /\ sched' = r.s
           /\ waiter' = [waiter EXCEPT ![c] =
                            [NoCall EXCEPT !.op = "get_nowait",
                                           !.pc = "returned", !.ret = r.ret]]
    /\ UNCHANGED <<rsched, restored, lastOp, pending, acceptedURLs, dropped,
                   bucketVars, pipeVars, fetchVars, crawlVars>>

\* the event loop runs caller c again after Event.set: wait() returns, and
\* get goes round its loop, wait_not_empty returns
WakeResume(c) ==
    /\ waiter[c].pc = "woken"
    /\ \E r \in {IF waiter[c].op = "get" THEN GetTurn(waiter[c], sched)
                 ELSE [s |-> sched,
                       call |-> [waiter[c] EXCEPT !.pc = "returned"]]} :
           /\ sched' = r.s
           /\ waiter' = [waiter EXCEPT ![c] = r.call]
    /\ UNCHANGED <<rsched, restored, lastOp, pending, acceptedURLs, dropped,
                   bucketVars, pipeVars, fetchVars, crawlVars>>

\* caller c, back from its call, is free to make another
WakeDone(c) ==
    /\ waiter[c].pc = "returned"
    /\ waiter' = [waiter EXCEPT ![c] = NoCall]
    /\ UNCHANGED <<sched, rsched, restored, lastOp, pending, acceptedURLs,
                   dropped, bucketVars, pipeVars, fetchVars, crawlVars>>

WakeNext ==
    \/ \E request \in WakeRequests(sched.counter) : WakeAdd(request)
    \/ \E requests \in WakeBatches(sched.counter) : WakeAddMany(requests)
    \/ \E c \in Getters : CallGet(c)
    \/ \E c \in Getters : CallWaitNotEmpty(c)
    \/ \E c \in Getters : CallGetNowait(c)
    \/ \E c \in Getters : WakeResume(c)
    \/ \E c \in Getters : WakeDone(c)

SpecWake == SchedInit /\ [][WakeNext]_vars

\* the event loop runs every task that is ready to run
WakeFairness == \A c \in Getters : WF_vars(WakeResume(c))

FairSpecWake == SpecWake /\ WakeFairness

(***************************************************************************)
(* SpecCache: two threads call get, set and delete on one ResponseCache     *)
(* while time passes.                                                       *)
(***************************************************************************)
\* _set_sync up to the lock: the timestamp of the row is taken
CacheSetCall(t, url, w) ==
    /\ cthread[t].pc = "idle"
    /\ cthread' = [cthread EXCEPT ![t] =
                      [NoCacheCall EXCEPT !.op = "set", !.pc = "inserting",
                                          !.url = url,
                                          !.row = Row(w.status_code, w.content,
                                                      utcnow)]]
    /\ UNCHANGED <<responses, utcnow, latest>>

\* _set_sync under the lock: the row is written and committed
CacheInsert(t) ==
    /\ cthread[t].pc = "inserting"
    /\ responses' = Upsert(responses, cthread[t].url, cthread[t].row)
    /\ latest' = [latest EXCEPT ![cthread[t].url] = cthread[t].row]
    /\ cthread' = [cthread EXCEPT ![t].pc = "returned"]
    /\ UNCHANGED utcnow

\* _get_sync under the lock: the row of the url is read
CacheSelect(t, url) ==
    /\ cthread[t].pc = "idle"
    /\ cthread' = [cthread EXCEPT ![t] =
                      [NoCacheCall EXCEPT !.op = "get", !.pc = "selected",
                                          !.url = url, !.row = responses[url]]]
    /\ UNCHANGED <<responses, utcnow, latest>>

\* _get_sync after the lock: no row, an expired row or the entry
CacheCheck(t) ==
    /\ cthread[t].pc = "selected"
    /\ cthread' = [cthread EXCEPT ![t] =
                      IF ~cthread[t].row.present
                      THEN [cthread[t] EXCEPT !.pc = "returned"]
                      ELSE IF Expired(cthread[t].row, utcnow)
                      THEN [cthread[t] EXCEPT !.pc = "deleting"]
                      ELSE [cthread[t] EXCEPT !.pc = "returned",
                                              !.ret = cthread[t].row]]
    /\ UNCHANGED <<responses, utcnow, latest>>

\* _get_sync: self._delete_sync(url), return None
CacheGetDelete(t) ==
    /\ cthread[t].pc = "deleting"
    /\ responses' = DeleteRow(responses, cthread[t].url)
    /\ cthread' = [cthread EXCEPT ![t].pc = "returned"]
    /\ UNCHANGED <<utcnow, latest>>

\* await cache.delete(url)
CacheDelete(t, url) ==
    /\ cthread[t].pc = "idle"
    /\ responses' = DeleteRow(responses, url)
    /\ latest' = [latest EXCEPT ![url] = NoRow]
    /\ cthread' = [cthread EXCEPT ![t] =
                      [NoCacheCall EXCEPT !.op = "delete", !.pc = "returned",
                                          !.url = url]]
    /\ UNCHANGED utcnow

\* the call of thread t is over: the thread is free for another call
CacheDone(t) ==
    /\ cthread[t].pc = "returned"
    /\ cthread' = [cthread EXCEPT ![t] = NoCacheCall]
    /\ UNCHANGED <<responses, utcnow, latest>>

\* time passes
CacheTick ==
    /\ utcnow < MaxClock
    /\ utcnow' = utcnow + 1
    /\ UNCHANGED <<responses, cthread, latest>>

CacheInit == SchedIdle /\ BucketIdle /\ PipeIdle /\ FetchIdle /\ CrawlIdle

OnlyCache ==
    UNCHANGED <<fconfig, ftask, robots_cache, rcache, buckets, fetches,
                schedVars, bucketVars, pipeVars, crawlVars>>

CacheNext ==
    \/ \E t \in CacheCallers, url \in StoredURLs, w \in CacheWrites :
          CacheSetCall(t, url, w) /\ OnlyCache
    \/ \E t \in CacheCallers : CacheInsert(t) /\ OnlyCache
    \/ \E t \in CacheCallers, url \in CacheURLs :
          CacheSelect(t, url) /\ OnlyCache
    \/ \E t \in CacheCallers : CacheCheck(t) /\ OnlyCache
    \/ \E t \in CacheCallers : CacheGetDelete(t) /\ OnlyCache
    \/ \E t \in CacheCallers, url \in CacheURLs :
          CacheDelete(t, url) /\ OnlyCache
    \/ \E t \in CacheCallers : CacheDone(t) /\ OnlyCache
    \/ CacheTick /\ OnlyCache

SpecCache == CacheInit /\ [][CacheNext]_vars

BucketInit ==
    /\ SchedIdle
    /\ PipeIdle
    /\ FetchIdle
    /\ CrawlIdle
    /\ \E rate \in Rates : bucket = NewBucket(rate, 0)
    /\ now = 0
    /\ caller = [c \in Callers |-> IdleCaller]
    /\ acquired = 0
    /\ exhausted = FALSE
    /\ exhaustedAt = 0
    /\ acquiredSince = 0

BucketNext ==
    \/ Tick /\ UNCHANGED <<schedVars, pipeVars, fetchVars, crawlVars>>
    \/ \E c \in Callers : Acquire(c) /\ UNCHANGED <<schedVars, pipeVars, fetchVars, crawlVars>>

SpecBucket == BucketInit /\ [][BucketNext]_vars

(***************************************************************************)
(* SpecWait: two callers of acquire() on one bucket, with the history of    *)
(* their waits, and the clock.                                              *)
(***************************************************************************)
WaitInit ==
    /\ SchedIdle
    /\ PipeIdle
    /\ FetchIdle
    /\ CrawlIdle
    /\ \E rate \in Rates : bucket = NewBucket(rate, 0)
    /\ now = 0
    /\ caller = [c \in Waiters |-> IdleWaiter]
    /\ acquired = 0
    /\ exhausted = FALSE
    /\ exhaustedAt = 0
    /\ acquiredSince = 0

WaitNext ==
    \/ Tick /\ UNCHANGED <<schedVars, pipeVars, fetchVars, crawlVars>>
    \/ \E c \in Waiters :
          WaitAcquire(c) /\ UNCHANGED <<schedVars, pipeVars, fetchVars, crawlVars>>

SpecWait == WaitInit /\ [][WaitNext]_vars

(***************************************************************************)
(* SpecPipe: calls on one Pipeline, ended by consolidate().                 *)
(***************************************************************************)
PipeInit ==
    /\ SchedIdle
    /\ BucketIdle
    /\ FetchIdle
    /\ CrawlIdle
    /\ \E bs \in 1..MaxBatchSize, fmt \in OutputFormats :
          pipeline = NewPipeline(bs, fmt)
    /\ output = <<>>
    /\ consolidated = FALSE
    /\ written = <<>>

\* await pipeline.add(item)
PipeAdd(item) ==
    /\ ~consolidated
    /\ Len(written) < MaxItems
    /\ pipeline' = PipelineAdd(pipeline, item)
    /\ written' = Append(written, item)
    /\ UNCHANGED <<output, consolidated>>

\* await pipeline.add_many(items)
PipeAddMany(items) ==
    /\ ~consolidated
    /\ Len(written) + Len(items) <= MaxItems
    /\ pipeline' = PipelineAddMany(pipeline, items)
    /\ written' = written \o items
    /\ UNCHANGED <<output, consolidated>>

\* await pipeline.flush()
PipeFlush ==
    /\ ~consolidated
    /\ pipeline' = PipelineFlush(pipeline)
    /\ UNCHANGED <<output, consolidated, written>>

\* pipeline.consolidate(): the output file is written and the batch files
\* are removed, unless there was no batch file
PipeConsolidate ==
    /\ ~consolidated
    /\ consolidated' = TRUE
    /\ output' \in ConsolidateOutputs(pipeline, output)
    /\ pipeline' = [pipeline EXCEPT !.files = <<>>]
    /\ UNCHANGED written

PipeNext ==
    \/ \E item \in PipeItems :
          PipeAdd(item) /\ UNCHANGED <<schedVars, bucketVars, fetchVars, crawlVars>>
    \/ \E a \in PipeItems, b \in PipeItems :
          PipeAddMany(<<a, b>>) /\ UNCHANGED <<schedVars, bucketVars, fetchVars, crawlVars>>
    \/ PipeFlush /\ UNCHANGED <<schedVars, bucketVars, fetchVars, crawlVars>>
    \/ PipeConsolidate /\ UNCHANGED <<schedVars, bucketVars, fetchVars, crawlVars>>

SpecPipe == PipeInit /\ [][PipeNext]_vars

(***************************************************************************)
(* SpecFetch: callers of Fetcher.fetch on one initialized Fetcher.  Each    *)
(* action is the code of fetch from one suspension to the next.             *)
(***************************************************************************)
FetchInit ==
    /\ SchedIdle
    /\ BucketIdle
    /\ PipeIdle
    /\ CrawlIdle
    /\ fconfig \in [respect_robots_txt : BOOLEAN, cache_enabled : BOOLEAN,
                     max_retries : 0..MaxRetries, retry_base_delay : {1},
                     max_requests_per_second :
                         {FetchRates.max_requests_per_second},
                     domain_rate_limits : {FetchRates.domain_rate_limits}]
    /\ ftask = [f \in Fetchers |-> IdleTask]
    /\ CacheIdle
    /\ robots_cache = <<>>
    /\ \E kept \in SUBSET {U_a} :
          rcache = [u \in FetchURLs |->
                      IF u \in kept
                      THEN [present |-> TRUE, status_code |-> 200,
                            content |-> "html", expired |-> FALSE]
                      ELSE NoEntry]
    /\ buckets = [d \in Domains |-> NoBucket]
    /\ fetches = 0

\* asyncio.sleep(retry_base_delay * 2 ** attempt), by its exponent
SleepEvent == [attempt \in 0..MaxRetries |-> "sleep " \o ToString(attempt)]

Logged(t, event) == [t EXCEPT !.log = Append(t.log, event)]

\* an attempt of the loop of fetch up to the GET of the page: the token is
\* taken from the bucket of the domain, which _get_bucket makes when it is
\* missing.  Nothing the task reads changes while acquire waits, so the
\* wait is not a step of its own.
Attempt(t) == [Logged(t, "acquire") EXCEPT !.pc = "page_get"]

TokenTaken(bs, domain) ==
    [_get_bucket(bs, domain, fconfig) EXCEPT ![domain].taken = @ + 1]

\* fetch goes on after can_fetch, with task record t: the 403 response, the
\* cache lookup, or _get_bucket and the attempt loop
Proceed(f, t, allowed) ==
    LET stage == AfterRobots(allowed, fconfig.cache_enabled)
        u == t.url
    IN  IF stage = "blocked"
        THEN /\ ftask' = [ftask EXCEPT ![f] =
                    [t EXCEPT !.pc = "returned", !.disallowed = ~allowed,
                              !.response = CrawlResponse(u, 403, "",
                                              "Blocked by robots.txt", FALSE)]]
             /\ UNCHANGED buckets
        ELSE IF stage = "cache_get"
        THEN /\ ftask' = [ftask EXCEPT ![f] =
                    [t EXCEPT !.pc = "cache_get", !.disallowed = ~allowed]]
             /\ UNCHANGED buckets
        ELSE /\ ftask' = [ftask EXCEPT ![f] =
                    Attempt([t EXCEPT !.disallowed = ~allowed])]
             /\ buckets' = TokenTaken(buckets, DomainTable[u])

\* history: the caller's last call of fetch was for the same url and has
\* returned the response of a GET with status 200, the cache on
Refetch(t, u) ==
    /\ fconfig.cache_enabled
    /\ t.pc = "returned"
    /\ t.url = u
    /\ ~t.raised
    /\ t.response.status_code = 200
    /\ ~t.response.from_cache

\* fetch(request) is called: can_fetch up to the GET of robots.txt, or, when
\* robots is off or cached, up to the next suspension
FetchStart(f, u) ==
    /\ ftask[f].pc \in {"idle", "returned"}
    \* callers are numbered in the order of their first call
    /\ \A g \in Fetchers : g < f => ftask[g].pc # "idle"
    /\ fetches < MaxFetches
    /\ fetches' = fetches + 1
    /\ LET t == [IdleTask EXCEPT !.url = u, !.again = Refetch(ftask[f], u)]
           robots_url == RobotsUrlTable[u]
       IN  IF ~fconfig.respect_robots_txt
           THEN Proceed(f, t, TRUE) /\ UNCHANGED robots_cache
           ELSE IF RobotsCached(robots_cache, robots_url)
           THEN /\ Proceed(f, Logged(t, "robots cached"),
                           RobotsAllows(RobotsEntry(robots_cache, robots_url)))
                /\ UNCHANGED robots_cache
           ELSE /\ robots_cache' = RobotsEvict(robots_cache)
                /\ ftask' = [ftask EXCEPT ![f] = [t EXCEPT !.pc = "robots_get"]]
                /\ UNCHANGED buckets
    /\ UNCHANGED <<cacheVars, fconfig, rcache>>

\* the GET of robots.txt ends: _get_robots caches what it got and can_fetch
\* answers
FetchRobotsDone(f, outcome) ==
    /\ ftask[f].pc = "robots_get"
    /\ LET t == Logged(ftask[f], "robots get")
           rp == RobotsParsed(outcome)
       IN  IF ~IsStatus(outcome) /\ outcome \notin {"200 allow", "200 disallow"}
              /\ ~IsSubclass(outcome, "HTTPError")
              /\ ~IsSubclass(outcome, "TimeoutException")
           THEN /\ ftask' = [ftask EXCEPT ![f] =
                       [t EXCEPT !.pc = "returned", !.raised = TRUE]]
                /\ UNCHANGED <<robots_cache, buckets>>
           ELSE /\ robots_cache' = RobotsStore(robots_cache,
                                               RobotsUrlTable[t.url], rp)
                /\ Proceed(f, t, RobotsAllows(rp))
    /\ UNCHANGED <<cacheVars, fconfig, rcache, fetches>>

\* await self.cache.get(request.url) ends
FetchCacheGot(f) ==
    /\ ftask[f].pc = "cache_get"
    /\ LET t == Logged(ftask[f], "cache get")
           r == CacheGet(rcache, t.url)
       IN  /\ rcache' = r.cache
           /\ IF r.entry.present
              THEN /\ ftask' = [ftask EXCEPT ![f] =
                          [t EXCEPT !.pc = "returned",
                                    !.response = CrawlResponse(t.url,
                                        r.entry.status_code, r.entry.content,
                                        None, TRUE)]]
                   /\ UNCHANGED buckets
              ELSE /\ ftask' = [ftask EXCEPT ![f] = Attempt(t)]
                   /\ buckets' = TokenTaken(buckets, DomainTable[t.url])
    /\ UNCHANGED <<cacheVars, fconfig, robots_cache, fetches>>

\* await self._client.get(request.url) ends: with a response, which is
\* returned (after cache.set when it is a 200 and the cache is on), or with
\* an exception, which is retried after a sleep or ends the loop
FetchGetDone(f, outcome) ==
    /\ ftask[f].pc = "page_get"
    /\ LET t == IF IsStatus(outcome) THEN Logged(ftask[f], "page get")
                ELSE [Logged(ftask[f], "page get") EXCEPT
                        !.failures = @ + 1, !.last_exc = outcome]
           last_error == last_error_After(outcome, t.last_error)
       IN  ftask' = [ftask EXCEPT ![f] =
             IF IsStatus(outcome)
             THEN [t EXCEPT
                     !.pc = IF fconfig.cache_enabled /\ StatusCode(outcome) = 200
                            THEN "cache_set" ELSE "returned",
                     !.response = PageResponse(ResponseURL[t.url], outcome)]
             ELSE IF last_error = "uncaught"
             THEN [t EXCEPT !.pc = "returned", !.raised = TRUE]
             ELSE IF t.attempt < fconfig.max_retries
             THEN [Logged(t, SleepEvent[t.attempt]) EXCEPT
                     !.pc = "backoff", !.last_error = last_error,
                     !.delays = Append(@, BackoffDelay(fconfig.retry_base_delay,
                                                       t.attempt))]
             ELSE [t EXCEPT !.pc = "returned", !.last_error = last_error,
                            !.response = FailedResponse(t.url, last_error)]]
    /\ UNCHANGED <<cacheVars, fconfig, robots_cache, rcache, buckets, fetches>>

\* await asyncio.sleep(delay) ends: the next attempt
FetchBackoffDone(f) ==
    /\ ftask[f].pc = "backoff"
    /\ ftask' = [ftask EXCEPT ![f] =
                    Attempt([ftask[f] EXCEPT !.attempt = @ + 1])]
    /\ buckets' = TokenTaken(buckets, DomainTable[ftask[f].url])
    /\ UNCHANGED <<cacheVars, fconfig, robots_cache, rcache, fetches>>

\* await self.cache.set(response.url, ...) ends
FetchCacheSet(f) ==
    /\ ftask[f].pc = "cache_set"
    /\ rcache' = CacheSet(rcache, ftask[f].response.url,
                          ftask[f].response.status_code, ftask[f].response.content)
    /\ ftask' = [ftask EXCEPT ![f] =
                    [Logged(ftask[f], "cache set") EXCEPT !.pc = "returned"]]
    /\ UNCHANGED <<cacheVars, fconfig, robots_cache, buckets, fetches>>

\* time passes: the cached entry of u becomes older than the TTL
CacheExpire(u) ==
    /\ rcache[u].present
    /\ ~rcache[u].expired
    /\ rcache' = [rcache EXCEPT ![u].expired = TRUE]
    /\ UNCHANGED <<cacheVars, fconfig, ftask, robots_cache, buckets, fetches>>

FetchNext ==
    \/ \E f \in Fetchers, u \in FetchURLs :
          FetchStart(f, u) /\ UNCHANGED <<schedVars, bucketVars, pipeVars, crawlVars>>
    \/ \E f \in Fetchers, outcome \in RobotsOutcomes :
          FetchRobotsDone(f, outcome) /\ UNCHANGED <<schedVars, bucketVars, pipeVars, crawlVars>>
    \/ \E f \in Fetchers :
          FetchCacheGot(f) /\ UNCHANGED <<schedVars, bucketVars, pipeVars, crawlVars>>
    \/ \E f \in Fetchers, outcome \in PageOutcomes :
          FetchGetDone(f, outcome) /\ UNCHANGED <<schedVars, bucketVars, pipeVars, crawlVars>>
    \/ \E f \in Fetchers :
          FetchBackoffDone(f) /\ UNCHANGED <<schedVars, bucketVars, pipeVars, crawlVars>>
    \/ \E f \in Fetchers :
          FetchCacheSet(f) /\ UNCHANGED <<schedVars, bucketVars, pipeVars, crawlVars>>
    \/ \E u \in FetchURLs :
          CacheExpire(u) /\ UNCHANGED <<schedVars, bucketVars, pipeVars, crawlVars>>

SpecFetch == FetchInit /\ [][FetchNext]_vars

(***************************************************************************)
(* SpecAlone: one caller of Fetcher.fetch, its calls one after the other,   *)
(* with one retry more than in SpecFetch and two base delays.               *)
(***************************************************************************)
AloneInit ==
    /\ SchedIdle
    /\ BucketIdle
    /\ PipeIdle
    /\ CrawlIdle
    /\ fconfig \in [respect_robots_txt : BOOLEAN, cache_enabled : BOOLEAN,
                     max_retries : 0..(MaxRetries + 1),
                     retry_base_delay : {1, 3},
                     max_requests_per_second :
                         {FetchRates.max_requests_per_second},
                     domain_rate_limits : {FetchRates.domain_rate_limits}]
    /\ ftask = [f \in Fetchers |-> IdleTask]
    /\ CacheIdle
    /\ robots_cache = <<>>
    /\ rcache = [u \in FetchURLs |-> NoEntry]
    /\ buckets = [d \in Domains |-> NoBucket]
    /\ fetches = 0

AloneNext ==
    \/ \E u \in FetchURLs :
          FetchStart(1, u) /\ UNCHANGED <<schedVars, bucketVars, pipeVars, crawlVars>>
    \/ \E outcome \in RobotsOutcomes :
          FetchRobotsDone(1, outcome) /\ UNCHANGED <<schedVars, bucketVars, pipeVars, crawlVars>>
    \/ FetchCacheGot(1) /\ UNCHANGED <<schedVars, bucketVars, pipeVars, crawlVars>>
    \/ \E outcome \in PageOutcomes :
          FetchGetDone(1, outcome) /\ UNCHANGED <<schedVars, bucketVars, pipeVars, crawlVars>>
    \/ FetchBackoffDone(1) /\ UNCHANGED <<schedVars, bucketVars, pipeVars, crawlVars>>
    \/ FetchCacheSet(1) /\ UNCHANGED <<schedVars, bucketVars, pipeVars, crawlVars>>
    \/ \E u \in FetchURLs :
          CacheExpire(u) /\ UNCHANGED <<schedVars, bucketVars, pipeVars, crawlVars>>

SpecAlone == AloneInit /\ [][AloneNext]_vars

(***************************************************************************)
(* Spec: one crawl, Crawler._crawl_iter and its workers.  A task loses the  *)
(* processor only where it is suspended: in fetch, in asyncio.sleep, in     *)
(* gather, and at a yield; the locks of the crawl are never held across a   *)
(* suspension, so taking one suspends nobody.  Each action is the code a    *)
(* task runs from one suspension to the next.                               *)
(***************************************************************************)
Init ==
    /\ SchedIdle
    /\ BucketIdle
    /\ PipeIdle
    /\ FetchIdle
    /\ \E cfg \in CrawlConfigs : CrawlStarted(cfg)
    /\ HookIdle

\* the worker goes on from the head of its loop
Resume(w, c) ==
    \E r \in {LoopHead(c, ccfg)} :
        /\ crawler' = r.c
        /\ worker' = [worker EXCEPT ![w].pc = r.pc, ![w].request = r.request,
                                    ![w].response = NoResponse]

\* a worker starts, or wakes from asyncio.sleep(0.1)
WorkerWake(w) ==
    /\ worker[w].pc = "idle"
    /\ ~worker[w].cancelled
    /\ Resume(w, crawler)
    /\ UNCHANGED <<ccfg, mainpc, yielded, coutput, gets, checkpointVars, hookrun>>

\* the request hooks return to the worker: the fetch starts, or None skips
\* the request, the finally clause gives the slot back and the loop goes on
WorkerRequestHooked(w) ==
    /\ worker[w].pc = "hooking"
    /\ ~worker[w].cancelled
    /\ LET hooked_request == _apply_request_hooks(ccfg.hooks, worker[w].request)
       IN  IF hooked_request = NoRequest
           THEN \E c \in {SkipRequest(crawler)} : Resume(w, c)
           ELSE /\ worker' = [worker EXCEPT ![w].pc = "fetching",
                                            ![w].request = hooked_request]
                /\ UNCHANGED crawler
    /\ UNCHANGED <<ccfg, mainpc, yielded, coutput, gets, checkpointVars, hookrun>>

\* fetch returns to the worker: the page is counted; without hooks the rest
\* of the try statement, the finally clause, and the loop again follow at
\* once, with hooks the response hooks are awaited
WorkerFetched(w, outcome) ==
    /\ worker[w].pc = "fetching"
    /\ ~worker[w].cancelled
    /\ outcome \in CrawlOutcomes(ccfg, worker[w].request.url)
    /\ LET request == worker[w].request
           response == FetchResult(request.url, outcome)
       IN  /\ IF ccfg.hooks = <<>>
              THEN \E c \in {ProcessResponse(crawler, ccfg, request, response)} :
                       Resume(w, c)
              ELSE /\ crawler' = CountResponse(crawler, response)
                   /\ worker' = [worker EXCEPT ![w].pc = "rhooking",
                                               ![w].response = response]
           /\ gets' = [gets EXCEPT ![request.url] = @ + 1]
    /\ UNCHANGED <<ccfg, mainpc, yielded, coutput, checkpointVars, hookrun>>

\* the response hooks return to the worker: the rest of the try statement,
\* the finally clause, and the loop again
WorkerResponseHooked(w) ==
    /\ worker[w].pc = "rhooking"
    /\ ~worker[w].cancelled
    /\ \E c \in {FinishResponse(crawler, ccfg, worker[w].request,
                                 worker[w].response,
                                 _apply_response_hooks(ccfg.hooks,
                                                       worker[w].response))} :
          Resume(w, c)
    /\ UNCHANGED <<ccfg, mainpc, yielded, coutput, gets, checkpointVars, hookrun>>

\* CancelledError is thrown into the worker where it is suspended; the
\* finally clause of a worker that had claimed a slot gives it back
WorkerCancelled(w) ==
    /\ worker[w].pc \in {"idle", "hooking", "fetching", "rhooking"}
    /\ worker[w].cancelled
    /\ crawler' = IF worker[w].pc # "idle" THEN ReleaseSlot(crawler)
                  ELSE crawler
    /\ worker' = [worker EXCEPT ![w].pc = "done"]
    /\ UNCHANGED <<ccfg, mainpc, yielded, coutput, gets, checkpointVars, hookrun>>

\* shutdown(), called while _crawl_iter is in its loop or on its way out
Shutdown ==
    /\ mainpc \in {"loop", "break"}
    /\ ~crawler.shutdown_event
    /\ crawler' = [crawler EXCEPT !.shutdown_event = TRUE]
    /\ UNCHANGED <<ccfg, worker, mainpc, yielded, coutput, gets, checkpointVars, hookrun>>

\* one turn of the loop of _crawl_iter: it ends the loop, or saves the
\* checkpoint that is due, yields the items of the queue and sleeps
MainCheck ==
    /\ mainpc = "loop"
    /\ IF crawler.shutdown_event
          \/ crawler.pages_crawled >= ccfg.max_pages
          \/ CrawlFinished(SchedIsEmpty(crawler.scheduler), crawler.active_tasks)
       THEN /\ mainpc' = "break"
            /\ ended' = IF crawler.shutdown_event THEN "shutdown"
                        ELSE IF crawler.pages_crawled >= ccfg.max_pages
                        THEN "budget" ELSE "frontier"
            /\ UNCHANGED <<crawler, yielded, last_checkpoint_count,
                           checkpoint_file>>
       ELSE /\ IF CheckpointDue(crawler, ccfg, last_checkpoint_count)
               THEN /\ checkpoint_file' =
                          _save_checkpoint(checkpoint_file, crawler, ccfg)
                    /\ last_checkpoint_count' = crawler.pages_crawled
               ELSE UNCHANGED <<checkpoint_file, last_checkpoint_count>>
            /\ yielded' = yielded \o crawler.item_queue
            /\ crawler' = [crawler EXCEPT !.item_queue = <<>>]
            /\ UNCHANGED <<mainpc, ended>>
    /\ UNCHANGED <<ccfg, worker, coutput, gets, deleted, resume_from, hookrun>>

\* after the loop: the remaining items are yielded, then the finally clause
\* sets the shutdown event and cancels the workers
MainFinally ==
    /\ mainpc = "break"
    /\ yielded' = yielded \o crawler.item_queue
    /\ crawler' = [crawler EXCEPT !.item_queue = <<>>, !.shutdown_event = TRUE]
    /\ worker' = [w \in Workers |->
                    IF worker[w].pc \notin {"done", "none"}
                    THEN [worker[w] EXCEPT !.cancelled = TRUE]
                    ELSE worker[w]]
    /\ mainpc' = "gather"
    /\ UNCHANGED <<ccfg, coutput, gets, checkpointVars, hookrun>>

\* gather returns: the last items are yielded, the pipeline is flushed and
\* consolidated, and the checkpoint of a complete crawl is deleted
MainGather ==
    /\ mainpc = "gather"
    /\ Gathered(worker)
    /\ yielded' = yielded \o crawler.item_queue
    /\ LET flushed == PipelineFlush(crawler.pipeline)
       IN  /\ crawler' = [crawler EXCEPT !.item_queue = <<>>,
                                         !.pipeline = flushed]
           /\ coutput' \in ConsolidateOutputs(flushed, coutput)
    /\ IF Completed(crawler, ccfg) /\ ccfg.checkpoint_path # None
       THEN /\ checkpoint_file' = delete_checkpoint(checkpoint_file)
            /\ deleted' = TRUE
       ELSE UNCHANGED <<checkpoint_file, deleted>>
    /\ mainpc' = "done"
    /\ UNCHANGED <<ccfg, worker, gets, last_checkpoint_count, ended,
                   resume_from, hookrun>>

Next ==
    \/ \E w \in Workers :
          WorkerWake(w) /\ UNCHANGED <<schedVars, bucketVars, pipeVars, fetchVars>>
    \/ \E w \in Workers, outcome \in PageOutcomes :
          WorkerFetched(w, outcome)
          /\ UNCHANGED <<schedVars, bucketVars, pipeVars, fetchVars>>
    \/ \E w \in Workers :
          WorkerCancelled(w) /\ UNCHANGED <<schedVars, bucketVars, pipeVars, fetchVars>>
    \/ MainCheck /\ UNCHANGED <<schedVars, bucketVars, pipeVars, fetchVars>>
    \/ MainFinally /\ UNCHANGED <<schedVars, bucketVars, pipeVars, fetchVars>>
    \/ MainGather /\ UNCHANGED <<schedVars, bucketVars, pipeVars, fetchVars>>

Spec == Init /\ [][Next]_vars

\* the event loop runs every task that is ready, and every fetch and every
\* sleep ends
Fairness ==
    /\ \A w \in Workers :
          WF_vars(/\ \/ WorkerWake(w)
                     \/ WorkerCancelled(w)
                     \/ \E outcome \in PageOutcomes : WorkerFetched(w, outcome)
                  /\ UNCHANGED <<schedVars, bucketVars, pipeVars, fetchVars>>)
    /\ WF_vars(/\ MainCheck \/ MainFinally \/ MainGather
               /\ UNCHANGED <<schedVars, bucketVars, pipeVars, fetchVars>>)

FairSpec == Spec /\ Fairness

\* a crawl with a checkpoint path that shutdown() may be called on
StopInit ==
    /\ SchedIdle
    /\ BucketIdle
    /\ PipeIdle
    /\ FetchIdle
    /\ \E cfg \in StopConfigs : CrawlStarted(cfg)
    /\ HookIdle

StopNext ==
    \/ Next
    \/ Shutdown /\ UNCHANGED <<schedVars, bucketVars, pipeVars, fetchVars>>

SpecStop == StopInit /\ [][StopNext]_vars

\* the event loop runs the task of _crawl_iter and the cancelled workers;
\* no fetch has to return and no sleep has to end
StopFairness ==
    /\ \A w \in Workers :
          WF_vars(WorkerCancelled(w)
                  /\ UNCHANGED <<schedVars, bucketVars, pipeVars, fetchVars>>)
    /\ WF_vars(/\ MainCheck \/ MainFinally \/ MainGather
               /\ UNCHANGED <<schedVars, bucketVars, pipeVars, fetchVars>>)

FairSpecStop == SpecStop /\ StopFairness

\* the configurations of SpecResume: one worker, a checkpoint after every
\* page
ResumeConfigs ==
    [site : {"graph"}, max_pages : {2, 10}, max_depth : {2},
     workers : {1}, batch_size : {MaxBatchSize},
     max_queue_size : {MaxQueueSize}, same_domain : {TRUE},
     checkpoint_interval : {1}, checkpoint_path : {"cp"}, hooks : {<<>>},
     respect_robots_txt : {FALSE},
     schema : {None}]

\* a new Crawler with the same configuration, resume_from the checkpoint a
\* finished run has left in the file, is run: the head of _crawl_iter up to
\* the creation of the workers
CrawlResume ==
    /\ mainpc = "done"
    /\ checkpoint_file.exists
    /\ ~resume_from.exists
    /\ resume_from' = checkpoint_file
    /\ \E seen_urls \in OrdersOf(checkpoint_file.seen_urls) :
          crawler' = ResumedCrawler(NewCrawler(ccfg), checkpoint_file, seen_urls)
    /\ worker' = [w \in Workers |->
                    [pc |-> IF w <= ccfg.workers THEN "idle" ELSE "none",
                     request |-> NoRequest, response |-> NoResponse,
                     cancelled |-> FALSE]]
    /\ mainpc' = "loop"
    /\ yielded' = <<>>
    /\ last_checkpoint_count' = checkpoint_file.pages_crawled
    /\ ended' = "running"
    /\ deleted' = FALSE
    /\ UNCHANGED <<ccfg, coutput, gets, checkpoint_file, hookrun>>

ResumeInit ==
    /\ SchedIdle
    /\ BucketIdle
    /\ PipeIdle
    /\ FetchIdle
    /\ \E cfg \in ResumeConfigs : CrawlStarted(cfg)
    /\ HookIdle

ResumeNext ==
    \/ StopNext
    \/ CrawlResume /\ UNCHANGED <<schedVars, bucketVars, pipeVars, fetchVars>>

SpecResume == ResumeInit /\ [][ResumeNext]_vars

\* the configurations of SpecPolicy: a site with a page robots.txt
\* disallows, links to another host and repeated links, a queue that fills
PolicyConfigs ==
    [site : {"walled"}, max_pages : {2, 10}, max_depth : {1, 2},
     workers : Workers, batch_size : {MaxBatchSize},
     max_queue_size : {1, MaxQueueSize}, same_domain : BOOLEAN,
     checkpoint_interval : {0}, checkpoint_path : {None}, hooks : {<<>>},
     respect_robots_txt : BOOLEAN,
     schema : {None}]

PolicyInit ==
    /\ SchedIdle
    /\ BucketIdle
    /\ PipeIdle
    /\ FetchIdle
    /\ \E cfg \in PolicyConfigs : CrawlStarted(cfg)
    /\ HookIdle

PolicyNext ==
    \/ Next
    \/ \E w \in Workers :
          WorkerFetched(w, "disallow")
          /\ UNCHANGED <<schedVars, bucketVars, pipeVars, fetchVars>>

SpecPolicy == PolicyInit /\ [][PolicyNext]_vars

\* the configurations of SpecDepth: every depth budget up to that of the
\* deepest page, on the site whose pages link back to pages linked before
DepthConfigs ==
    [site : {"walled", "graph"}, max_pages : {2, 10}, max_depth : {0, 1, 2},
     workers : Workers, batch_size : {MaxBatchSize},
     max_queue_size : {MaxQueueSize}, same_domain : BOOLEAN,
     checkpoint_interval : {0}, checkpoint_path : {None}, hooks : {<<>>},
     respect_robots_txt : {FALSE},
     schema : {None}]

DepthInit ==
    /\ SchedIdle
    /\ BucketIdle
    /\ PipeIdle
    /\ FetchIdle
    /\ \E cfg \in DepthConfigs : CrawlStarted(cfg)
    /\ HookIdle

SpecDepth == DepthInit /\ [][Next]_vars

\* the configurations of SpecFaulty: a site whose pages fail to load or do
\* not fit the schema of the crawl
FaultyConfigs ==
    [site : {"flaky"}, max_pages : {2, 10}, max_depth : {1, 2},
     workers : Workers, batch_size : {MaxBatchSize},
     max_queue_size : {MaxQueueSize}, same_domain : {TRUE},
     checkpoint_interval : {0}, checkpoint_path : {None}, hooks : {<<>>},
     respect_robots_txt : {FALSE}, schema : {None, "strict"}]

FaultyInit ==
    /\ SchedIdle
    /\ BucketIdle
    /\ PipeIdle
    /\ FetchIdle
    /\ \E cfg \in FaultyConfigs : CrawlStarted(cfg)
    /\ HookIdle

SpecFaulty == FaultyInit /\ [][Next]_vars

FairSpecFaulty == SpecFaulty /\ Fairness

\* the lists of hooks of SpecHooked: a hook that skips the requests of one
\* page, one that discards the response of one page, SkipAllHook and
\* DiscardAllHook of the tests, and two hooks of which the second skips
\* the requests of one page and discards the responses of another
CrawlHookLists ==
    {<<Hook("skip", "keep", {U_b})>>, <<Hook("keep", "skip", {U_b})>>,
     <<Hook("skip", "keep", CrawlURLs)>>, <<Hook("keep", "skip", CrawlURLs)>>,
     <<Hook("inc", "keep", {}), Hook("skip", "skip", {U_a})>>,
     <<Hook("inc", "dbl", {}), Hook("skip", "keep", {U_c}),
       Hook("keep", "skip", {U_b})>>}

\* the configurations of SpecHooked: crawls with hooks
HookConfigs ==
    [site : {"graph"}, max_pages : {2, 10}, max_depth : {2},
     workers : Workers, batch_size : {MaxBatchSize},
     max_queue_size : {MaxQueueSize}, same_domain : {TRUE},
     checkpoint_interval : {0}, checkpoint_path : {None},
     hooks : CrawlHookLists, respect_robots_txt : {FALSE},
     schema : {None}]

HookedInit ==
    /\ SchedIdle
    /\ BucketIdle
    /\ PipeIdle
    /\ FetchIdle
    /\ \E cfg \in HookConfigs : CrawlStarted(cfg)
    /\ HookIdle

HookedNext ==
    \/ Next
    \/ \E w \in Workers :
          WorkerRequestHooked(w)
          /\ UNCHANGED <<schedVars, bucketVars, pipeVars, fetchVars>>
    \/ \E w \in Workers :
          WorkerResponseHooked(w)
          /\ UNCHANGED <<schedVars, bucketVars, pipeVars, fetchVars>>

SpecHooked == HookedInit /\ [][HookedNext]_vars

\* a hook raises in the worker that awaits it: the try statement of _worker
\* has no except clause, so the finally clause gives the slot back and the
\* exception ends the task; gather(return_exceptions=True) collects it
WorkerRaised(w) ==
    /\ worker[w].pc \in {"hooking", "rhooking"}
    /\ ~worker[w].cancelled
    /\ crawler' = ReleaseSlot(crawler)
    /\ worker' = [worker EXCEPT ![w].pc = "done"]
    /\ UNCHANGED <<ccfg, mainpc, yielded, coutput, gets, checkpointVars, hookrun>>

\* SpecSlots: the crawls with hooks, where a hook may raise and shutdown()
\* may be called, so that a worker iteration ends in each of its ways
SlotsNext ==
    \/ HookedNext
    \/ \E w \in Workers :
          WorkerRaised(w)
          /\ UNCHANGED <<schedVars, bucketVars, pipeVars, fetchVars>>
    \/ Shutdown /\ UNCHANGED <<schedVars, bucketVars, pipeVars, fetchVars>>

SpecSlots == HookedInit /\ [][SlotsNext]_vars

\* the hooks of SpecHooks
ChainHooks ==
    {Hook("keep", "keep", {}), Hook("inc", "inc", {}), Hook("dbl", "dbl", {}),
     Hook("skip", "skip", {U_a})}

\* the lists of at most MaxHooks hooks
HookLists == UNION {[1..n -> ChainHooks] : n \in 0..MaxHooks}

\* a chain is called on a request or on a response
HooksInit ==
    /\ SchedIdle
    /\ BucketIdle
    /\ PipeIdle
    /\ FetchIdle
    /\ CrawlStarted(IdleConfig)
    /\ \E hooks \in HookLists :
          \/ hookrun = NewChain(hooks, "request", CrawlRequest(U_a, 0, 1))
          \/ hookrun = NewChain(hooks, "response", PageResponse(U_a, "200"))

\* the chain awaits its next hook
HookCall ==
    /\ ~hookrun.done
    /\ hookrun' = ChainStep(hookrun)
    /\ UNCHANGED <<ccfg, crawler, worker, mainpc, yielded, coutput, gets,
                   checkpointVars>>

HooksNext ==
    HookCall /\ UNCHANGED <<schedVars, bucketVars, pipeVars, fetchVars>>

SpecHooks == HooksInit /\ [][HooksNext]_vars

(***************************************************************************)
(* Properties of the Scheduler (SpecSched).                                 *)
(***************************************************************************)
\* C2: every get()/get_nowait() returns the pending request of the greatest
\* priority and, among those of equal priority, the one accepted earliest
\* (and None exactly when nothing is pending).
C2_PriorityFifo ==
    lastOp.op \in {"get", "get_nowait"} => lastOp.ret = lastOp.expected

\* a get returned a priority-5 request while an older priority-0 request and
\* another priority-5 request stayed pending
C2_Witness ==
    /\ lastOp.op = "get"
    /\ lastOp.ret.priority = 5
    /\ Len(pending) = 2
    /\ pending[1].priority = 0
    /\ pending[2].priority = 5

\* the multiset of the (name, value) pairs of a query string
PairCount(pairs, p) == Cardinality({i \in 1..Len(pairs) : pairs[i] = p})
SamePairs(q1, q2) ==
    LET a == parse_qsl(q1)
        b == parse_qsl(q2)
    IN  /\ Len(a) = Len(b)
        /\ \A i \in 1..Len(a) : PairCount(a, a[i]) = PairCount(b, a[i])

\* u and v differ only in a trailing slash of the path
DifferInTrailingSlash(u, v) ==
    LET pu == urlparse(u)
        pv == urlparse(v)
    IN  /\ [pu EXCEPT !.path = <<>>] = [pv EXCEPT !.path = <<>>]
        /\ \/ pu.path = pv.path \o <<"/">>
           \/ pv.path = pu.path \o <<"/">>

\* u and v differ only in the letter case of scheme and host
DifferInCase(u, v) ==
    LET colon == FindFirst(u, {":"}, 1)
        pu == urlparse(u)
        pv == urlparse(v)
    IN  /\ u # v
        /\ Lower(pu.netloc) = Lower(pv.netloc)
        /\ [pu EXCEPT !.netloc = <<>>] = [pv EXCEPT !.netloc = <<>>]

\* u and v differ only in the order of their query parameters
DifferInQueryOrder(u, v) ==
    LET pu == urlparse(u)
        pv == urlparse(v)
    IN  /\ u # v
        /\ [pu EXCEPT !.query = <<>>] = [pv EXCEPT !.query = <<>>]
        /\ SamePairs(pu.query, pv.query)

\* C3: of two URLs that differ only in a trailing slash, in the case of
\* scheme/host or in the order of the query parameters, at most one is
\* accepted by add/add_many.
C3_DedupInvariant ==
    \A u \in acceptedURLs : \A v \in acceptedURLs :
        ~(DifferInTrailingSlash(u, v) \/ DifferInCase(u, v)
          \/ DifferInQueryOrder(u, v))

\* the requests of a queue in the order successive gets return them
RECURSIVE DrainOrder(_)
DrainOrder(queue) ==
    IF queue = <<>> THEN <<>>
    ELSE LET p == heappop(queue)
         IN  <<p.item[3]>> \o DrainOrder(p.heap)

\* C4: a fresh scheduler restored from get_state() has the seen-set and the
\* pending queue of the original, returns what the original returns under
\* the same later add/add_many/get calls; its counter exceeds every
\* restored sequence number, so no later request gets a sequence number that
\* is already in the queue.
C4_RoundTrip ==
    restored =>
        /\ rsched.seen = sched.seen
        /\ DrainOrder(rsched.queue) = DrainOrder(sched.queue)
        /\ lastOp.rret = lastOp.ret
        /\ \A i \in 1..Len(rsched.queue) :
               /\ rsched.counter >= rsched.queue[i][2]
               /\ \A j \in 1..Len(rsched.queue) :
                      i # j => rsched.queue[i][2] # rsched.queue[j][2]
        /\ lastOp.op = "restore" =>
               /\ rsched.queue = sched.queue
               /\ \A i \in 1..Len(rsched.queue) :
                      rsched.counter > rsched.queue[i][2]

\* after a restore a request was accepted by both schedulers under different
\* sequence numbers and a get then returned a request from both
C4_Witness ==
    /\ restored
    /\ lastOp.op = "get"
    /\ lastOp.ret # NoRequest
    /\ rsched.queue # <<>>
    /\ rsched.queue # sched.queue

(***************************************************************************)
(* Properties of the TokenBucket (SpecBucket).                              *)
(***************************************************************************)
\* C5: the acquires returned by time t never exceed capacity + rate * t, and
\* once an acquire has found the bucket exhausted at time e, k further
\* acquires have not all returned before e + (k - 1) / rate, for one caller
\* or several.
C5_RateBound ==
    /\ TokenUnit * acquired <= bucket.capacity + bucket.rate * now
    /\ (exhausted /\ acquiredSince >= 1) =>
           bucket.rate * (now - exhaustedAt) >= TokenUnit * (acquiredSince - 1)

\* the burst was used up, both callers had to sleep, and three further
\* acquires have returned since
C5_Witness ==
    /\ exhausted
    /\ acquiredSince >= 3
    /\ acquired > acquiredSince
    /\ \E c \in Callers : caller[c].pc = "sleeping"

(***************************************************************************)
(* Properties of the Pipeline (SpecPipe).                                   *)
(***************************************************************************)
\* the last item written for url u
LatestWrite(u) ==
    written[CHOOSE i \in 1..Len(written) :
               /\ written[i].url = u
               /\ \A j \in (i + 1)..Len(written) : written[j].url # u]

\* the records of the output file for url u
RecordsFor(u) == {i \in 1..Len(output) : output[i].url = u}

\* url u was written more than once, with different payloads
WrittenTwice(u) ==
    \E i, j \in 1..Len(written) :
        written[i].url = u /\ written[j].url = u /\ written[i] # written[j]

\* C8: once every write has been flushed and consolidate() has run, the
\* output holds exactly one record for a URL written more than once with
\* different payloads, and it is the latest write, whether the writes fell
\* into one batch file or into several.
C8_ConsolidateDedup ==
    (consolidated /\ pipeline.buffer = <<>>) =>
        \A u \in {"A", "B"} :
            WrittenTwice(u) =>
                /\ Cardinality(RecordsFor(u)) = 1
                /\ \A i \in RecordsFor(u) : output[i] = LatestWrite(u)

(***************************************************************************)
(* Fetcher.fetch                                                            *)
(***************************************************************************)
\* the message of an exception of the network layer: a timeout has a fixed
\* message, any other error its own text
ErrorMessage(exc) ==
    IF exc = "ReadTimeout" THEN "Request timeout" ELSE "str " \o exc

\* C9: fetch raises nothing to its caller and returns a response whatever
\* the network does; when every one of the max_retries + 1 attempts failed
\* with a timeout or a transport error, the response has status 0 and
\* carries the message of the error of the last attempt.
\* The outcomes of the network layer are the answers of the server and the
\* exceptions httpx raises for a request it has sent, all of them subclasses
\* of httpx.HTTPError.
C9_FetchNeverRaises ==
    \A f \in Fetchers :
        LET t == ftask[f]
        IN  /\ ~t.raised
            /\ t.pc = "returned" => t.response # NoResponse
            /\ (t.pc = "returned" /\ t.failures = fconfig.max_retries + 1) =>
                  /\ t.response.status_code = 0
                  /\ t.response.error = ErrorMessage(t.last_exc)
                  /\ ~t.response.from_cache

\* a fetch with one retry has returned after a timeout and then a connection
\* error
C9_Witness ==
    \E f \in Fetchers :
        /\ ftask[f].pc = "returned"
        /\ fconfig.max_retries = 1
        /\ ftask[f].failures = 2
        /\ ftask[f].last_exc = "ConnectError"
        /\ ftask[f].last_error = "str ConnectError"
        /\ "sleep 0" \in {ftask[f].log[i] : i \in 1..Len(ftask[f].log)}

\* the step of fetch an event of the log belongs to: 1 robots, 2 cache
\* lookup, 3 rate limiter and network, 4 cache write
Stage(event) ==
    IF event \in {"robots cached", "robots get"} THEN 1
    ELSE IF event = "cache get" THEN 2
    ELSE IF event = "cache set" THEN 4
    ELSE 3

Stages(t) == {Stage(t.log[i]) : i \in 1..Len(t.log)}

\* C10: in every fetch the robots check comes first, then the cache lookup,
\* then the rate limiter and the network.  A URL robots disallows is
\* answered with status 403 and an error, with no cache read or write, no
\* token taken and no GET of the page; a cache hit is answered with
\* from_cache true, with no token taken and no GET of the page.
C10_FetchOrder ==
    \A f \in Fetchers :
        LET t == ftask[f]
        IN  /\ \A i, j \in 1..Len(t.log) :
                  i < j => Stage(t.log[i]) <= Stage(t.log[j])
            /\ (fconfig.respect_robots_txt /\ t.log # <<>>) =>
                  Stage(t.log[1]) = 1
            /\ (fconfig.cache_enabled /\ 3 \in Stages(t)) => 2 \in Stages(t)
            /\ t.disallowed =>
                  /\ t.pc = "returned"
                  /\ t.response.status_code = 403
                  /\ t.response.error # None
                  /\ Stages(t) \subseteq {1}
            /\ t.response.from_cache =>
                  /\ t.pc = "returned"
                  /\ Stages(t) \subseteq {1, 2}

\* with the cache on, one fetch was refused by robots.txt and another was
\* answered from the cache
C10_Witness ==
    /\ fconfig.cache_enabled
    /\ \E f, g \in Fetchers :
          /\ ftask[f].disallowed
          /\ ftask[f].response.status_code = 403
          /\ ftask[g].response.from_cache
          /\ ftask[g].log = <<"robots get", "cache get">>

(***************************************************************************)
(* Properties of the crawl (Spec, FairSpec).                                *)
(***************************************************************************)
\* the fetches in flight
Fetching == {w \in Workers : worker[w].pc = "fetching"}

\* C1: in every state of a fresh crawl, whatever the number of workers and
\* the page budget, pages_crawled is at most max_pages; the slots claimed
\* and not yet counted never exceed what is left of the budget.
C1_BudgetInvariant ==
    /\ crawler.pages_crawled <= ccfg.max_pages
    /\ crawler.pages_crawled + Cardinality(Fetching) <= ccfg.max_pages
    /\ crawler.stats.pages_crawled = crawler.pages_crawled

\* two workers have pulled a request each while one slot was left: one
\* fetches it, the other has ended, and the budget is now used up
C1_Witness ==
    /\ ccfg.max_pages = 2
    /\ crawler.pages_crawled = 2
    /\ \E v, w \in Workers :
          /\ v # w
          /\ worker[v].pc = "done"
          /\ ~worker[v].cancelled
          /\ worker[w].pc = "done"
          /\ gets[U_b] + gets[U_c] = 1
          /\ SchedIsEmpty(crawler.scheduler)

\* the scenario of the four-page graph
GraphScenario ==
    /\ ccfg.site = "graph"
    /\ ccfg.max_depth = 2
    /\ ccfg.max_pages = 10
    /\ ccfg.same_domain

RowsOf(rows, u) == {i \in 1..Len(rows) : rows[i].url = u}

\* the crawl has ended with each of the four pages fetched once and emitted
\* once, to the output file and to the caller
GraphCrawled ==
    /\ mainpc = "done"
    /\ crawler.pages_crawled = 4
    /\ \A u \in {U_a, U_b, U_c, U_d} :
          /\ gets[u] = 1
          /\ Cardinality(RowsOf(coutput, u)) = 1
          /\ Cardinality(RowsOf(yielded, u)) = 1
    /\ gets[W_a] = 0
    /\ Len(coutput) = 4
    /\ Len(yielded) = 4

\* C6: the crawl of the graph A -> B, C; B -> D from the seed A, with
\* max_depth 2, max_pages 10, same-domain on and robots off, ends by itself
\* for any number of workers and any interleaving, with pages_crawled = 4
\* and each of the four URLs fetched and emitted exactly once.
C6_GraphCrawl == GraphScenario ~> GraphCrawled

\* the crawl of the graph has ended, three workers having fetched
C6_Witness ==
    /\ GraphScenario
    /\ GraphCrawled
    /\ ccfg.workers = 3
    /\ \A w \in Workers : worker[w].cancelled

\* C7: when the seed answers 404 on every attempt and max_retries is 0,
\* fetch returns a response of status 0 or 404 without raising, the crawl
\* completes, and the errors counter is 1 at completion.
C7_Seed404 ==
    (ccfg.site = "seed404" /\ mainpc = "done") =>
        /\ gets[U_a] = 1
        /\ crawler.pages_crawled = 1
        /\ crawler.stats.errors = 1

(***************************************************************************)
(* C11.  The seen-set is bounded, and evicts its oldest tenth when full.    *)
(***************************************************************************)
\* the normalized URLs of the requests of the last call
NormsOf(requests) == {NormTable[requests[i].url] : i \in 1..Len(requests)}

\* what a call that accepted `accepted` requests may leave of the seen-set
\* `old`: all of it, or all but its MAX_SEEN_URLS/10 oldest entries when one
\* of the accepted requests found MAX_SEEN_URLS entries
KeptOf(old, accepted) ==
    IF accepted > 0 /\ Len(old) + accepted - 1 >= MAX_SEEN_URLS
    THEN SubSeq(old, (MAX_SEEN_URLS \div 10) + 1, Len(old))
    ELSE old

\* C11: after any sequence of add/add_many calls the seen-set holds at most
\* MAX_SEEN_URLS entries; an accepted add that finds it holding
\* MAX_SEEN_URLS entries removes exactly the MAX_SEEN_URLS/10 oldest of them
\* and then records the new URL last; a call that accepts nothing leaves
\* the seen-set as it was.
C11_SeenBounded ==
    /\ [](Len(sched.seen) <= MAX_SEEN_URLS)
    /\ [][lastOp'.op \in {"add", "add_many"} =>
            LET accepted == lastOp'.ret
                kept == KeptOf(sched.seen, accepted)
                new == sched'.seen
            IN  /\ Len(new) = Len(kept) + accepted
                /\ SubSeq(new, 1, Len(kept)) = kept
                /\ \A k \in 1..accepted :
                       new[Len(kept) + k] \in NormsOf(lastOp'.requests)]_vars

\* an accepted add found the seen-set full: its two oldest entries are gone
\* and the new URL is the last of the nineteen that remain
C11_Witness ==
    /\ lastOp.op = "add"
    /\ lastOp.ret = 1
    /\ Len(sched.seen) = MAX_SEEN_URLS - (MAX_SEEN_URLS \div 10) + 1
    /\ sched.seen[1] = NormTable[SeenURL(MAX_SEEN_URLS \div 10)]
    /\ sched.seen[Len(sched.seen)] = NormTable[lastOp.requests[1].url]

(***************************************************************************)
(* C12.  The queue is bounded, and a full queue turns a request away        *)
(* without recording it.                                                    *)
(***************************************************************************)
\* C12: after any sequence of add/add_many/get calls the queue holds at most
\* max_queue_size requests; an add or add_many that finds the queue full
\* accepts nothing and leaves the seen-set as it was; and an add of a URL
\* that a full queue turned away is accepted once the queue has room.
C12_QueueBounded ==
    /\ [](Len(sched.queue) <= MaxQueueSize)
    /\ [][(lastOp'.op \in {"add", "add_many"}
            /\ Len(sched.queue) >= MaxQueueSize) =>
               /\ lastOp'.ret = (IF lastOp'.op = "add" THEN FALSE ELSE 0)
               /\ sched' = sched]_vars
    /\ [](\A request \in SchedRequests :
            (/\ NormTable[request.url] \in dropped.waiting
             /\ Len(sched.queue) < MaxQueueSize) =>
                LET r == SchedAdd(sched, request, MaxQueueSize)
                IN  /\ r.ret = TRUE
                    /\ InSeq(QueueRequests(r.s.queue), request)
                    /\ InSeen(r.s.seen, NormTable[request.url]))

\* an add has just accepted a URL that a full queue had turned away
C12_Witness ==
    /\ lastOp.op = "add"
    /\ lastOp.ret = TRUE
    /\ sched.seen # <<>>
    /\ sched.seen[Len(sched.seen)] \in dropped.admitted

(***************************************************************************)
(* C13.  The robots cache and its capacity.                                 *)
(***************************************************************************)
\* the robots.txt URLs the cache holds, oldest insertion first
RobotsKeys(cache) == [i \in 1..Len(cache) |-> cache[i].url]

\* C13: under any interleaving of concurrent can_fetch calls the robots
\* cache never holds more than ROBOTS_CACHE_MAX entries, and a step that
\* inserts a new origin into a cache at capacity removes its oldest entry
\* and no other.
C13_RobotsCacheBound ==
    /\ [](Len(robots_cache) <= ROBOTS_CACHE_MAX)
    /\ [][(/\ Len(robots_cache) >= ROBOTS_CACHE_MAX
            /\ \E i \in 1..Len(robots_cache') :
                   ~RobotsCached(robots_cache, robots_cache'[i].url)) =>
               /\ Len(robots_cache') = Len(robots_cache)
               /\ SubSeq(RobotsKeys(robots_cache'), 1, Len(robots_cache) - 1)
                     = Tail(RobotsKeys(robots_cache))]_vars

(***************************************************************************)
(* C14.  The level of a TokenBucket stays between 0 and its capacity.       *)
(***************************************************************************)
\* the level a pass of acquire refills the bucket to at the present time
Refilled ==
    Min(bucket.capacity,
        bucket.tokens + (now - bucket.last_update) * bucket.rate)

\* C14: in every reachable state 0 <= tokens <= capacity; a pass of
\* acquire leaves the level refilled by elapsed * rate and capped at the
\* capacity, less one token, which it takes only when the refilled level
\* is at least one whole token.
C14_TokensInRange ==
    /\ [](0 <= bucket.tokens /\ bucket.tokens <= bucket.capacity)
    /\ [][bucket' # bucket =>
            \/ bucket'.tokens = Refilled /\ acquired' = acquired
            \/ /\ Refilled >= TokenUnit
               /\ bucket'.tokens = Refilled - TokenUnit
               /\ acquired' = acquired + 1]_vars

\* a bucket of more than one token has been drawn from, has refilled and has
\* just been drawn from again, and a caller has been refused meanwhile
C14_Witness ==
    /\ bucket.capacity > TokenUnit
    /\ acquired >= 2
    /\ exhausted
    /\ now >= 2
    /\ bucket.last_update = now
    /\ bucket.tokens = bucket.capacity - TokenUnit

C16_AcquireReturns ==
    \A c \in Waiters : caller[c].rounds <= caller[c].others + 1

(***************************************************************************)
(* C17.  The bucket of a domain and its rate.                               *)
(***************************************************************************)
\* the rate the configuration gives a domain
ConfiguredRate(config, d) ==
    IF d \in DOMAIN config.domain_rate_limits
    THEN config.domain_rate_limits[d]
    ELSE config.max_requests_per_second

\* C17: the bucket of a domain is made on its first use and reused on every
\* later use (it stays, with its rate, and its count of tokens taken only
\* grows), and its rate is the rate the configuration map gives the domain,
\* or the global rate when the map does not name the domain.
C17_DomainBucketRate ==
    /\ [](\A d \in Domains :
            buckets[d].exists => buckets[d].rate = ConfiguredRate(fconfig, d))
    /\ [][\A d \in Domains :
            buckets[d].exists =>
                /\ buckets'[d].exists
                /\ buckets'[d].rate = buckets[d].rate
                /\ buckets'[d].taken >= buckets[d].taken]_vars

(***************************************************************************)
(* C18.  The end of a crawl run (SpecStop).                                 *)
(***************************************************************************)
\* the items the pipeline holds, written and buffered
SinkItems(pl) == Concat(pl.files) \o pl.buffer

\* C18: when a run ends the loop is left, every worker that has not ended
\* is cancelled, and the run completes only when every worker has ended; the
\* completing step yields what the item queue holds and flushes the
\* pipeline.  Once the run is complete the item queue is empty, every
\* extracted item has been yielded, the buffer of the pipeline is empty, and
\* nothing changes the item queue, the pipeline or the yielded items.
C18_ShutdownOrder ==
    /\ [](mainpc = "gather" =>
            \A w \in Workers :
                worker[w].pc \in {"idle", "fetching"} => worker[w].cancelled)
    /\ [][(mainpc # "done" /\ mainpc' = "done") =>
              /\ mainpc = "gather"
              /\ \A w \in Workers : worker[w].pc \in {"done", "none"}
              /\ yielded' = yielded \o crawler.item_queue
              /\ SinkItems(crawler'.pipeline) = SinkItems(crawler.pipeline)]_vars
    /\ [](mainpc = "done" =>
            /\ crawler.item_queue = <<>>
            /\ crawler.pipeline.buffer = <<>>
            /\ Len(yielded) = crawler.stats.items_extracted
            /\ Len(SinkItems(crawler.pipeline)) = crawler.stats.items_extracted)
    /\ [][mainpc = "done" =>
              /\ crawler'.item_queue = crawler.item_queue
              /\ crawler'.pipeline = crawler.pipeline
              /\ yielded' = yielded
              /\ worker' = worker]_vars

\* a run that shutdown() ended is complete: a worker was cancelled in its
\* fetch, items were yielded, and requests are left in the queue
C18_Witness ==
    /\ mainpc = "done"
    /\ ended = "shutdown"
    /\ \E w \in Workers : worker[w].cancelled /\ worker[w].request # NoRequest
    /\ Len(yielded) >= 2
    /\ ~SchedIsEmpty(crawler.scheduler)

(***************************************************************************)
(* C19.  shutdown() stops the run (FairSpecStop).                           *)
(***************************************************************************)
\* C19: once the shutdown event is set no worker goes on to another turn of
\* its loop: a worker that moves ends, and no request is taken from the
\* queue.  A run whose loop is running when shutdown() is called reaches its
\* end, whether or not a fetch returns or a sleeping worker wakes.
C19_ShutdownStops ==
    /\ [][crawler.shutdown_event =>
              /\ \A w \in Workers :
                     worker'[w].pc # worker[w].pc => worker'[w].pc = "done"
              /\ Len(crawler'.scheduler.queue) >=
                     Len(crawler.scheduler.queue)]_vars
    /\ (crawler.shutdown_event /\ mainpc = "loop") ~> (mainpc = "done")

\* a run that shutdown() ended is over with pages left in its budget, with
\* requests left in the queue, and with a worker that saw the event at the
\* head of its loop
C19_Witness ==
    /\ mainpc = "done"
    /\ ended = "shutdown"
    /\ crawler.pages_crawled < ccfg.max_pages
    /\ ~SchedIsEmpty(crawler.scheduler)
    /\ \E w \in Workers : worker[w].pc = "done" /\ ~worker[w].cancelled

(***************************************************************************)
(* C20.  The checkpoint at the end of a run (SpecStop).                     *)
(***************************************************************************)
\* C20: at the end of a run delete_checkpoint has been called if and only
\* if the loop of the run ended on the page budget or on the empty frontier
\* with no work in flight; a run whose loop ended on the shutdown event has
\* not had its checkpoint deleted.
C20_DeletedIffNatural ==
    mainpc = "done" => (deleted <=> ended \in {"budget", "frontier"})

(***************************************************************************)
(* C21.  The start of a resumed run (SpecResume).                           *)
(***************************************************************************)
\* the entries of a scheduler's queue as a checkpoint holds them
PendingOf(queue) ==
    [i \in 1..Len(queue) |->
        [priority |-> queue[i][1], counter |-> queue[i][2],
         request |-> _request_to_dict(queue[i][3])]]

\* C21: the step that starts a run from a checkpoint leaves pages_crawled
\* and batch_number at the checkpoint's values, the seen-set and the queue
\* of the scheduler equal to the checkpoint's, no worker having run; no
\* seed is added: the scheduler has accepted nothing.  Through the run the
\* page count never falls below the checkpoint's.
C21_ResumeRestores ==
    /\ [][(resume_from'.exists /\ ~resume_from.exists) =>
              /\ crawler'.pages_crawled = resume_from'.pages_crawled
              /\ crawler'.batch_number = resume_from'.batch_number
              /\ SeqToSet(crawler'.scheduler.seen) = resume_from'.seen_urls
              /\ Len(crawler'.scheduler.seen) =
                     Cardinality(resume_from'.seen_urls)
              /\ PendingOf(crawler'.scheduler.queue) =
                     resume_from'.pending_queue
              /\ \A i \in 1..Len(crawler'.scheduler.queue) :
                     crawler'.scheduler.counter > crawler'.scheduler.queue[i][2]
              /\ \A w \in Workers : worker'[w].pc \in {"idle", "none"}
              /\ crawler'.active_tasks = 0]_vars
    /\ [](resume_from.exists =>
             crawler.pages_crawled >= resume_from.pages_crawled)

\* a run has resumed from a checkpoint with pages crawled and requests
\* pending, and has crawled a page more
C21_Witness ==
    /\ resume_from.exists
    /\ resume_from.pages_crawled >= 1
    /\ Len(resume_from.pending_queue) >= 1
    /\ crawler.pages_crawled > resume_from.pages_crawled

(***************************************************************************)
(* C22.  The hook chains (SpecHooks).                                       *)
(***************************************************************************)
\* what the hook at index i of the running chain returns for argument v
HookReturns(i, v) ==
    IF hookrun.chain = "request" THEN on_request(hookrun.hooks[i], v)
    ELSE on_response(hookrun.hooks[i], v)

\* C22: the k-th call of a chain is the call of the k-th registered hook;
\* the first gets the argument of the chain and each later one gets what
\* the call before it returned, which was not None.  The chain ends at the
\* first hook that returns None, with None as its result and no later hook
\* called; otherwise it ends when every hook has been called, with what the
\* last hook returned.
C22_HookChain ==
    LET calls == hookrun.calls
    IN  /\ Len(calls) <= Len(hookrun.hooks)
        /\ \A k \in 1..Len(calls) :
               /\ calls[k].hook = k
               /\ calls[k].ret = HookReturns(k, calls[k].arg)
               /\ k > 1 => /\ calls[k].arg = calls[k - 1].ret
                           /\ calls[k - 1].ret # hookrun.none
        /\ \A k \in 1..Len(calls) :
               calls[k].ret = hookrun.none =>
                   /\ k = Len(calls)
                   /\ hookrun.done
                   /\ hookrun.ret = hookrun.none
        /\ (hookrun.done /\ hookrun.ret # hookrun.none) =>
               /\ Len(calls) = Len(hookrun.hooks)
               /\ calls # <<>> => hookrun.ret = calls[Len(calls)].ret
        /\ hookrun.done =>
               hookrun.ret =
                   IF hookrun.chain = "request"
                   THEN _apply_request_hooks(hookrun.hooks,
                            IF calls = <<>> THEN hookrun.current
                            ELSE calls[1].arg)
                   ELSE _apply_response_hooks(hookrun.hooks,
                            IF calls = <<>> THEN hookrun.current
                            ELSE calls[1].arg)

\* a chain of three hooks was cut short by its second hook, after its
\* first hook had rewritten the argument
C22_Witness ==
    /\ Len(hookrun.hooks) = 3
    /\ hookrun.done
    /\ Len(hookrun.calls) = 2
    /\ hookrun.calls[1].ret # hookrun.calls[1].arg
    /\ hookrun.ret = hookrun.none

(***************************************************************************)
(* C23, C24.  Crawls with hooks (SpecHooked).                               *)
(***************************************************************************)
\* the request hooks of the crawl return None for the request of url
RequestVetoed(url) ==
    \E depth \in 0..2 :
        _apply_request_hooks(ccfg.hooks, CrawlRequest(url, depth, -depth))
            = NoRequest

\* the workers that hold a slot of the page budget
Claimed == {w \in Workers : worker[w].pc \in {"hooking", "fetching", "rhooking"}}

\* C23: the step of a worker whose request the request hooks veto fetches
\* nothing and leaves pages_crawled and every counter of stats as they
\* are; it gives back the slot of the request, once: active_tasks falls by
\* one, or stays when the worker claims a slot for its next request in the
\* same step, and active_tasks always is the number of workers that hold a
\* slot.  No page whose request is vetoed is ever fetched.
C23_RequestVeto ==
    /\ [][\A w \in Workers :
              (/\ worker[w].pc = "hooking"
               /\ ~worker[w].cancelled /\ ~worker'[w].cancelled
               /\ worker'[w] # worker[w]
               /\ _apply_request_hooks(ccfg.hooks, worker[w].request) = NoRequest)
              => /\ gets' = gets
                 /\ crawler'.pages_crawled = crawler.pages_crawled
                 /\ crawler'.stats = crawler.stats
                 /\ crawler'.item_queue = crawler.item_queue
                 /\ worker'[w].pc \in {"hooking", "idle", "done"}
                 /\ crawler'.active_tasks =
                        IF worker'[w].pc = "hooking" THEN crawler.active_tasks
                        ELSE crawler.active_tasks - 1]_vars
    /\ [](crawler.active_tasks = Cardinality(Claimed))
    /\ [](\A url \in CrawlURLs : RequestVetoed(url) => gets[url] = 0)

\* the run is over: a request was vetoed after a page had been crawled,
\* and the page of the vetoed request was never fetched
C23_Witness ==
    /\ mainpc = "done"
    /\ crawler.pages_crawled >= 1
    /\ RequestVetoed(U_b)
    /\ InSeen(crawler.scheduler.seen, NormTable[U_b])
    /\ \A i \in 1..Len(crawler.scheduler.queue) :
           crawler.scheduler.queue[i][3].url # U_b
    /\ gets[U_b] = 0

\* the response hooks of the crawl return None for the response to the GET
\* of url, whatever its outcome
ResponseVetoed(url) ==
    \A outcome \in SiteOutcomes(ccfg.site, url) :
        _apply_response_hooks(ccfg.hooks, FetchResult(url, outcome))
            = NoResponse

\* the URLs of the items of a list
ItemURLs(items) == {items[i].url : i \in 1..Len(items)}

RECURSIVE SumGets(_)
SumGets(urls) ==
    IF urls = {} THEN 0
    ELSE LET url == CHOOSE u \in urls : TRUE
         IN  gets[url] + SumGets(urls \ {url})

\* C24: every fetch that returns is counted in pages_crawled, also when the
\* response hooks veto the response.  The step of a worker whose response
\* the hooks veto emits no item and adds no request to the scheduler, and
\* no item of a page whose response is vetoed is ever in the item queue,
\* among the yielded items, in the pipeline or in the output.
C24_ResponseVeto ==
    /\ [](crawler.pages_crawled = SumGets(CrawlURLs))
    /\ [][\A w \in Workers :
              (/\ worker[w].pc = "rhooking"
               /\ ~worker[w].cancelled /\ ~worker'[w].cancelled
               /\ worker'[w] # worker[w]
               /\ _apply_response_hooks(ccfg.hooks, worker[w].response)
                      = NoResponse)
              => /\ crawler'.pages_crawled = crawler.pages_crawled
                 /\ crawler'.stats = crawler.stats
                 /\ crawler'.item_queue = crawler.item_queue
                 /\ crawler'.pipeline = crawler.pipeline
                 /\ crawler'.scheduler.seen = crawler.scheduler.seen
                 /\ crawler'.scheduler.counter = crawler.scheduler.counter]_vars
    /\ [](\A url \in CrawlURLs :
            ResponseVetoed(url) =>
                url \notin ItemURLs(crawler.item_queue) \cup ItemURLs(yielded)
                            \cup ItemURLs(SinkItems(crawler.pipeline))
                            \cup ItemURLs(coutput))

\* the run is over: the page of U_b was fetched and counted, its response
\* was vetoed, its link was not followed, and other pages gave items
C24_Witness ==
    /\ mainpc = "done"
    /\ ResponseVetoed(U_b)
    /\ gets[U_b] = 1
    /\ crawler.pages_crawled >= 2
    /\ ~InSeen(crawler.scheduler.seen, NormTable[U_d])
    /\ yielded # <<>>

(***************************************************************************)
(* C25.  Policy rejections and the errors counter (SpecPolicy).             *)
(***************************************************************************)
\* C25: on a site where every GET of a page succeeds, the requests the
\* crawl turns away (pages robots.txt disallows, links to other hosts,
\* links that find the queue full, links seen before) leave the errors
\* counter at zero.
C25_PolicyNotFailure == crawler.stats.errors = 0

(***************************************************************************)
(* C26: add_many against add, one request at a time.                        *)
(***************************************************************************)
\* for r in requests[i..]: await scheduler.add(r), with the number of calls
\* that returned True
RECURSIVE AddEach(_, _, _, _, _)
AddEach(s, requests, i, added, max_queue_size) ==
    IF i > Len(requests) THEN [s |-> s, ret |-> added]
    ELSE LET r == SchedAdd(s, requests[i], max_queue_size)
         IN  AddEach(r.s, requests, i + 1,
                     IF r.ret THEN added + 1 ELSE added, max_queue_size)

\* the requests of a batch whose URL is in the seen-set s.seen or is that
\* of an earlier request of the batch
Repeats(s, requests) ==
    {i \in 1..Len(requests) :
        \/ InSeen(s.seen, NormTable[requests[i].url])
        \/ \E j \in 1..(i - 1) :
               NormTable[requests[j].url] = NormTable[requests[i].url]}

\* the entries of the queue of scheduler after that a call on scheduler s
\* has pushed: those with a sequence number above the counter of s
Enqueued(s, after) ==
    {k \in 1..Len(after.queue) : after.queue[k][2] > s.counter}

\* what add_many does to scheduler s with a batch, against add on each
\* request of the batch in list order
AddManyAsAdds(s, requests, many, each) ==
    /\ many.s.queue = each.s.queue
    /\ many.s.seen = each.s.seen
    /\ many.s.counter = each.s.counter
    /\ many.s.not_empty = each.s.not_empty
    /\ many.ret = each.ret
    /\ many.ret = Len(many.s.queue) - Len(s.queue)
    /\ many.ret = many.s.counter - s.counter
    /\ many.ret <= Len(requests) - Cardinality(Repeats(s, requests))
    /\ \A k \in Enqueued(s, many.s) :
           /\ ~InSeen(s.seen, NormTable[many.s.queue[k][3].url])
           /\ \A l \in Enqueued(s, many.s) \ {k} :
                  NormTable[many.s.queue[l][3].url]
                      # NormTable[many.s.queue[k][3].url]

\* C26: an add_many call leaves the queue, the seen-set, the sequence
\* counter (and the not-empty event) as add on each request of the batch
\* in list order, on the scheduler the call was made on, would; it returns
\* the number of requests it enqueued, which is the number of calls of add
\* that return True; and the requests it enqueues have URLs that were not
\* seen before the call and that differ from each other.
C26_AddManyIsAdds ==
    lastOp.op = "add_many" =>
        \A each \in {AddEach(lastOp.before, lastOp.requests, 1, 0,
                             MaxQueueSize)} :
            AddManyAsAdds(lastOp.before, lastOp.requests,
                          [s |-> sched, ret |-> lastOp.ret], each)

\* an add_many call has enqueued one request of a batch of three: one of
\* the others had a URL seen before the call, one a URL that normalizes to
\* that of an earlier request of the batch
C26_Witness ==
    /\ lastOp.op = "add_many"
    /\ Len(lastOp.requests) = 3
    /\ lastOp.ret = 1
    /\ Len(sched.queue) < MaxQueueSize
    /\ \E i, j \in 1..3 :
           /\ InSeen(lastOp.before.seen, NormTable[lastOp.requests[i].url])
           /\ ~InSeen(lastOp.before.seen, NormTable[lastOp.requests[j].url])
           /\ \E k \in 1..(j - 1) :
                  /\ lastOp.requests[k] # lastOp.requests[j]
                  /\ NormTable[lastOp.requests[k].url]
                         = NormTable[lastOp.requests[j].url]

(***************************************************************************)
(* C27: suspension and wake-up of the callers of the Scheduler.             *)
(***************************************************************************)
\* caller c has come back from a call of op in this step
Returns(c, op) ==
    /\ waiter[c].pc # "returned"
    /\ waiter'[c].pc = "returned"
    /\ waiter'[c].op = op

\* what one step of SpecWake may do to the callers
WakeStep ==
    /\ sched'.counter > sched.counter =>
           \A c \in Getters : waiter[c].pc = "waiting" =>
                                  waiter'[c].pc = "woken"
    /\ \A c \in Getters :
           /\ Returns(c, "get") =>
                  /\ sched.queue # <<>>
                  /\ waiter'[c].ret = heappop(sched.queue).item[3]
                  /\ sched'.queue = heappop(sched.queue).heap
           /\ waiter[c].pc = "woken" /\ waiter[c].op = "get"
                  /\ waiter'[c] # waiter[c] /\ sched.queue # <<>> =>
                  Returns(c, "get")
           /\ waiter[c].pc = "idle" /\ waiter'[c].op = "wait_not_empty"
                  /\ sched.queue # <<>> =>
                  waiter'[c].pc = "returned" /\ ~waiter'[c].resumed
           /\ waiter[c].pc = "idle" /\ waiter'[c].op = "get_nowait" =>
                  /\ Returns(c, "get_nowait")
                  /\ ~waiter'[c].resumed
                  /\ sched.queue = <<>> =>
                         waiter'[c].ret = NoRequest /\ sched' = sched

\* no caller is left suspended while a request is pending
NoLostWakeup ==
    \A c \in Getters : waiter[c].pc = "waiting" => sched.queue = <<>>

\* caller c, resumed in get, comes back from it
GetComesBack(c) ==
    (waiter[c].pc = "woken" /\ waiter[c].op = "get")
        ~> (waiter[c].pc = "returned")

\* caller c, resumed in get, comes back from it with a request, unless the
\* pending requests have all been taken before it runs and it is suspended
\* again
GetComesBackOrWaits(c) ==
    (waiter[c].pc = "woken" /\ waiter[c].op = "get")
        ~> \/ waiter[c].pc = "returned" /\ waiter[c].ret # NoRequest
           \/ waiter[c].pc = "waiting" /\ sched.queue = <<>>

\* caller c, resumed in wait_not_empty, comes back from it
WaitComesBack(c) ==
    (waiter[c].pc = "woken" /\ waiter[c].op = "wait_not_empty")
        ~> (waiter[c].pc = "returned")

\* C27 as stated: every caller suspended in get() or wait_not_empty() is
\* resumed when add or add_many accepts a request, and the resumed get()
\* then returns a pending request; wait_not_empty() on a non-empty queue
\* and get_nowait() on an empty queue return without suspending, the
\* latter with None.
C27_ResumedGetReturns ==
    /\ [][WakeStep]_vars
    /\ \A c \in Getters : GetComesBack(c) /\ WaitComesBack(c)

\* C27, amended: every caller suspended in get() or wait_not_empty() is
\* resumed when add or add_many accepts a request, and no caller stays
\* suspended while a request is pending; a resumed get() returns the best
\* pending request if one is still pending when it runs, and is suspended
\* again if the other callers have taken them all; a resumed
\* wait_not_empty() returns; wait_not_empty() on a non-empty queue and
\* get_nowait() on an empty queue return without suspending, the latter
\* with None.
C27_ResumedGetReturnsOrWaits ==
    /\ [][WakeStep]_vars
    /\ []NoLostWakeup
    /\ \A c \in Getters : GetComesBackOrWaits(c) /\ WaitComesBack(c)

\* a caller that was suspended in get() has come back with a request while
\* another caller, resumed by the same add, is suspended in get() again
C27_Witness ==
    \E c, d \in Getters :
        /\ waiter[c].op = "get" /\ waiter[c].pc = "returned"
        /\ waiter[c].resumed /\ waiter[c].ret # NoRequest
        /\ waiter[d].op = "get" /\ waiter[d].pc = "waiting"
        /\ waiter[d].resumed
        /\ sched.counter = 1

(***************************************************************************)
(* C28, C29: the ResponseCache.                                             *)
(***************************************************************************)
\* thread t comes back from get in this step
GetReturns(t) ==
    /\ cthread[t].op = "get"
    /\ cthread[t].pc # "returned"
    /\ cthread'[t].pc = "returned"

\* what one step of a call does: get reads the row of its url; it returns
\* the row it has read when the age of the row is within the TTL, and
\* nothing else; on an expired row it goes on to remove the row of the url
\* and returns None; set leaves the row it was called with, whatever was
\* there
CacheStep ==
    \A t \in CacheCallers :
        /\ cthread[t].pc = "idle" /\ cthread'[t].op = "get" =>
               cthread'[t].row = responses[cthread'[t].url]
        /\ GetReturns(t) =>
               /\ cthread'[t].ret.present =>
                      /\ cthread'[t].ret = cthread[t].row
                      /\ utcnow - cthread[t].row.cached_at <= CacheTTL
                      /\ cthread[t].url \in StoredURLs
               /\ cthread[t].row.present /\ cthread[t].pc = "selected" =>
                      /\ cthread'[t].ret = cthread[t].row
                      /\ ~Expired(cthread[t].row, utcnow)
               /\ cthread[t].pc = "deleting" =>
                      /\ ~responses'[cthread[t].url].present
                      /\ ~cthread'[t].ret.present
        /\ (/\ cthread[t].pc = "selected" /\ cthread[t].row.present
            /\ Expired(cthread[t].row, utcnow)
            /\ cthread'[t] # cthread[t]) => cthread'[t].pc = "deleting"
        /\ cthread[t].pc = "inserting" /\ cthread'[t].pc = "returned" =>
               responses'[cthread[t].url] = cthread[t].row

\* the table holds, for every url, what the last set or delete call left
\* there, unless that row has expired and a get has removed it: so a get
\* that starts now reads the latest write
TableIsLatest ==
    \A u \in CacheURLs :
        \/ responses[u] = latest[u]
        \/ ~responses[u].present /\ Expired(latest[u], utcnow)

\* C28: get returns an entry only if one was stored for the url and its age
\* is within the TTL; a get that finds an expired entry removes it; set on
\* a url that is cached already replaces the entry, and the next get
\* returns the latest write.
C28_GetReturnsLatest == [][CacheStep]_vars /\ []TableIsLatest

\* C29: when a get removes the row of its url, the row it removes is
\* expired: it never removes an entry that a set has written since the get
\* read the table.
C29_GetKeepsFresh ==
    [][\A t \in CacheCallers :
           (/\ cthread[t].pc = "deleting" /\ cthread'[t].pc = "returned"
            /\ responses[cthread[t].url].present)
               => Expired(responses[cthread[t].url], utcnow)]_vars

(***************************************************************************)
(* C30: same-domain mode.                                                   *)
(***************************************************************************)
\* the hosts of the seed URLs
SeedHosts == {DomainTable[U_a]}

\* the links of a list with a host among hosts, in order
RECURSIVE OnHosts(_, _)
OnHosts(links, hosts) ==
    IF links = <<>> THEN <<>>
    ELSE IF DomainTable[Head(links)] \in hosts
    THEN <<Head(links)>> \o OnHosts(Tail(links), hosts)
    ELSE OnHosts(Tail(links), hosts)

\* the urls of a list of requests, in order
RequestURLs(requests) == [i \in 1..Len(requests) |-> requests[i].url]

\* the urls the crawl holds or has fetched: in the frontier, taken by a
\* worker, fetched
CrawlHeld ==
    {crawler.scheduler.queue[k][3].url :
        k \in 1..Len(crawler.scheduler.queue)}
    \cup {worker[w].request.url :
            w \in {v \in Workers : worker[v].request # NoRequest}}
    \cup {u \in CrawlURLs : gets[u] > 0}

\* the hosts of the crawl at any time
DomainScope ==
    /\ crawler.allowed_domains = SeedHosts
    /\ \A u \in CrawlURLs :
           RequestURLs(NewRequests(crawler, ccfg, CrawlRequest(u, 0, 0),
                                   Links(ccfg.site, u)))
               = IF ccfg.same_domain
                 THEN OnHosts(Links(ccfg.site, u), SeedHosts)
                 ELSE Links(ccfg.site, u)
    /\ ccfg.same_domain =>
           /\ \A u \in CrawlHeld : DomainTable[u] \in SeedHosts
           /\ ~InSeen(crawler.scheduler.seen, NormTable[W_a])
    /\ (~ccfg.same_domain /\ ccfg.max_queue_size >= 2
           /\ crawler.pages_crawled >= 1) =>
           InSeen(crawler.scheduler.seen, NormTable[W_a])

\* the errors counter moves only in a step of a worker whose page is
\* blocked by robots.txt, and not in the step that handles the seed page,
\* the page with a link to another host
ErrorsStep ==
    /\ crawler'.stats.errors # crawler.stats.errors =>
           \E w \in Workers :
               /\ worker[w].pc = "fetching"
               /\ worker'[w] # worker[w]
               /\ ccfg.respect_robots_txt
               /\ Disallowed(ccfg.site, worker[w].request.url)
    /\ crawler.pages_crawled = 0 =>
           crawler'.stats.errors = crawler.stats.errors

\* C30: the allowed domains are the hosts of the seed URLs throughout the
\* crawl.  With same_domain on, the requests made of the links of a page
\* are those of the links with a host among them, in order, and every URL
\* in the frontier, taken by a worker or fetched has such a host: the link
\* to the other host is never accepted.  With same_domain off a request is
\* made of every link, and the link to the other host is accepted once the
\* seed page has been handled (the queue having room for it).  The step
\* that drops the link leaves the errors counter as it is.
C30_SameDomain == []DomainScope /\ [][ErrorsStep]_vars

\* same_domain is on, the seed page has been handled, its links on the seed
\* host are in the frontier and its link to the other host is not
C30_Witness ==
    /\ ccfg.same_domain
    /\ crawler.pages_crawled >= 1
    /\ gets[U_a] = 1
    /\ InSeen(crawler.scheduler.seen, NormTable[U_c])
    /\ ~InSeen(crawler.scheduler.seen, NormTable[W_a])
    /\ crawler.stats.errors = 0

(***************************************************************************)
(* C31: the depth budget (SpecDepth).                                       *)
(***************************************************************************)
\* the requests the crawl holds: in the frontier or taken by a worker
HeldRequests(c, ws) ==
    {c.scheduler.queue[k][3] : k \in 1..Len(c.scheduler.queue)}
    \cup {ws[w].request : w \in {v \in Workers : ws[v].request # NoRequest}}

\* no request of the crawl is deeper than max_depth, and the seed is at
\* depth 0
DepthBound ==
    \A r \in HeldRequests(crawler, worker) :
        /\ r.depth \in 0..ccfg.max_depth
        /\ r.url = U_a => r.depth = 0

\* a request the crawl did not hold before the step comes from the page a
\* worker has fetched in it: the request of that page is less deep than
\* max_depth, the new request one deeper than it, with the priority of
\* its depth
LinksStep ==
    \A r \in HeldRequests(crawler', worker') \ HeldRequests(crawler, worker) :
        \E w \in Workers :
            /\ worker[w].pc = "fetching"
            /\ worker'[w] # worker[w]
            /\ worker[w].request.depth < ccfg.max_depth
            /\ r.depth = worker[w].request.depth + 1
            /\ r.priority = -r.depth
            /\ InSeq(Links(ccfg.site, worker[w].request.url), r.url)

\* with max_depth = 0 only the seed is fetched, and nothing is ever added
\* to the frontier
SeedsOnly ==
    ccfg.max_depth = 0 =>
        /\ \A u \in CrawlURLs \ {U_a} : gets[u] = 0
        /\ crawler.scheduler.counter = 1

\* C31: links are enqueued only from pages whose request is less deep than
\* max_depth, each one deeper than the request of its page, so no request
\* deeper than max_depth is in the frontier or taken by a worker; with
\* max_depth = 0 only the seed is fetched.
C31_DepthBudget == []DepthBound /\ [][LinksStep]_vars /\ []SeedsOnly

\* with max_depth = 1 the run is over: the seed and a page it links to
\* were fetched, and the page that one links to was never accepted
C31_Witness ==
    /\ ccfg.max_depth = 1
    /\ mainpc = "done"
    /\ gets[U_a] = 1
    /\ gets[U_c] = 1
    /\ ~InSeen(crawler.scheduler.seen, NormTable[U_d])
    /\ gets[U_d] = 0

(***************************************************************************)
(* C32: pages that fail (SpecFaulty, FairSpecFaulty).                       *)
(***************************************************************************)
\* the step in which the fetch of a page returns counts the page, whatever
\* the response; a response with an error and a page that does not fit the
\* schema give no item; the worker goes on with its loop, which it leaves
\* only when the budget is used up or taken
FailureStep ==
    \A w \in Workers :
        (/\ worker[w].pc = "fetching"
         /\ gets'[worker[w].request.url] = gets[worker[w].request.url] + 1)
        => /\ crawler'.pages_crawled = crawler.pages_crawled + 1
           /\ crawler'.stats.pages_crawled = crawler.stats.pages_crawled + 1
           /\ (\/ crawler'.stats.errors # crawler.stats.errors
               \/ /\ ccfg.schema # None
                  /\ Mismatched(ccfg.site, worker[w].request.url))
              => /\ crawler'.item_queue = crawler.item_queue
                 /\ crawler'.pipeline = crawler.pipeline
                 /\ crawler'.stats.items_extracted
                        = crawler.stats.items_extracted
           /\ crawler'.stats.errors # crawler.stats.errors
              => crawler'.scheduler.counter = crawler.scheduler.counter
           /\ worker'[w].pc \in {"fetching", "idle", "done"}
           /\ worker'[w].pc = "done"
              => crawler'.pages_crawled + crawler'.active_tasks
                     >= ccfg.max_pages

\* every page fetched is counted once; an item is emitted only for a page
\* that was fetched and fits the schema; the items are those counted
FailuresCounted ==
    /\ crawler.pages_crawled = SumGets(CrawlURLs)
    /\ \A u \in ItemURLs(yielded \o crawler.item_queue) :
           /\ gets[u] = 1
           /\ ~(ccfg.schema # None /\ Mismatched(ccfg.site, u))
    /\ crawler.stats.items_extracted = Len(yielded) + Len(crawler.item_queue)
    /\ crawler.stats.errors <= crawler.pages_crawled

\* a run with budget to spare that is over has fetched every page it
\* accepted, the failed ones as well, each once
AllProcessed ==
    (mainpc = "done" /\ ccfg.max_pages = 10) =>
        /\ \A u \in CrawlURLs :
               InSeen(crawler.scheduler.seen, NormTable[u]) => gets[u] = 1
        /\ ended = "frontier"
        /\ \A w \in Workers : worker[w].pc \in {"done", "none"}

\* C32: a page whose fetch fails or whose extraction fails is counted in
\* pages_crawled and gives no item; the worker that handled it goes on, the
\* other pages the crawl has accepted are fetched, and the run ends.
C32_PageFailure ==
    /\ [][FailureStep]_vars
    /\ []FailuresCounted
    /\ []AllProcessed
    /\ <>(mainpc = "done")

\* the run is over: the fetch of one page failed, the extraction of another
\* raised ExtractionError, both were counted and gave no item, and the page
\* the second links to was fetched and gave one
C32_Witness ==
    /\ mainpc = "done"
    /\ ccfg.schema = "strict"
    /\ crawler.pages_crawled = 4
    /\ crawler.stats.errors = 1
    /\ gets[U_b] = 1 /\ gets[U_c] = 1 /\ gets[U_d] = 1
    /\ ItemURLs(yielded) = {U_a, U_d}

(***************************************************************************)
(* C33: the attempts of one fetch (SpecAlone).                              *)
(***************************************************************************)
\* the events of the attempt loop in the log of a fetch
AttemptEvents(t) == SelectSeq(t.log, LAMBDA e : Stage(e) = 3)

\* the event at place p of an attempt loop that runs in turn: the token of
\* attempt i, its GET, and the sleep after it
TurnEvent(p) ==
    LET i == (p - 1) \div 3
    IN  CASE (p - 1) % 3 = 0 -> "acquire"
          [] (p - 1) % 3 = 1 -> "page get"
          [] OTHER -> "sleep " \o ToString(i)

CountOf(seq, e) == Cardinality({p \in 1..Len(seq) : seq[p] = e})

\* the tokens taken from all buckets
RECURSIVE TakenIn(_, _)
TakenIn(bs, ds) ==
    IF ds = {} THEN 0
    ELSE LET d == CHOOSE x \in ds : TRUE
         IN  bs[d].taken + TakenIn(bs, ds \ {d})

\* the attempts of a fetch so far
RetrySchedule(t) ==
    LET a == AttemptEvents(t)
        attempts == CountOf(a, "acquire")
    IN  /\ \A p \in 1..Len(a) : a[p] = TurnEvent(p)
        /\ attempts <= fconfig.max_retries + 1
        /\ CountOf(a, "page get") = IF t.pc = "page_get" THEN attempts - 1
                                    ELSE attempts
        /\ Len(t.delays) = Len(a) \div 3
        /\ Len(t.delays) <= fconfig.max_retries
        /\ Len(t.delays) <= t.failures
        /\ \A i \in 1..Len(t.delays) :
               t.delays[i] = fconfig.retry_base_delay * 2^(i - 1)
        /\ t.pc = "backoff" => Len(a) % 3 = 0 /\ t.failures = attempts
        /\ (t.pc \in {"returned", "cache_set"} /\ a # <<>>) =>
               /\ a[Len(a)] = "page get"
               /\ Len(t.delays) = attempts - 1
        /\ (t.pc = "returned" /\ t.response.status_code = 0) =>
               /\ attempts = fconfig.max_retries + 1
               /\ t.failures = attempts

\* a token is taken in a step exactly when an attempt starts in it
TokenStep ==
    TakenIn(buckets', Domains) - TakenIn(buckets, Domains)
        = Cardinality({f \in Fetchers :
                          /\ ftask'[f].pc = "page_get"
                          /\ ftask[f].pc # "page_get"})

\* C33: the attempts of one fetch come one after the other, each after the
\* acquire of its token and at most max_retries + 1 of them; a token is
\* taken for every attempt and for nothing else; after the failed attempt
\* i that is not the last the fetch sleeps retry_base_delay * 2^i, and it
\* does not sleep after the last attempt.
C33_RetrySchedule ==
    /\ [](\A f \in Fetchers : RetrySchedule(ftask[f]))
    /\ [][TokenStep]_vars

\* the first fetch has failed for good with max_retries = 2 and a base
\* delay of 3: three tokens, three attempts, sleeps of 3 and 6
C33_Witness ==
    /\ fconfig.max_retries = 2
    /\ fconfig.retry_base_delay = 3
    /\ fetches = 1
    /\ ftask[1].pc = "returned"
    /\ ftask[1].response.status_code = 0
    /\ ftask[1].delays = <<3, 6>>
    /\ CountOf(ftask[1].log, "acquire") = 3
    /\ TakenIn(buckets, Domains) = 3

(***************************************************************************)
(* C34: the natural end of the crawl (SpecHooked).                          *)
(***************************************************************************)
\* the workers that hold a request they have taken from the frontier and
\* not finished: in the request hooks, in fetch, in the response hooks
Holding ==
    {w \in Workers : worker[w].pc \notin {"idle", "done", "none"}}

\* the turn of the loop of _crawl_iter that ends the crawl because the
\* frontier is empty and nothing is in flight is taken when no worker
\* holds a request
NaturalEndStep ==
    (mainpc = "loop" /\ mainpc' = "break" /\ ended' = "frontier") =>
        /\ Holding = {}
        /\ Claimed = {}
        /\ SchedIsEmpty(crawler.scheduler)
        /\ crawler.active_tasks = 0

\* once the crawl has ended that way no worker holds a request, up to the
\* cancel of the workers and after it
NaturalEndHolds ==
    ended = "frontier" =>
        /\ Holding = {}
        /\ SchedIsEmpty(crawler.scheduler)
        /\ \A w \in Workers : worker[w].pc \in {"idle", "done", "none"}

\* a worker holds a request exactly while it holds a slot, and the slots
\* held are those counted in flight
HoldingIsClaimed ==
    /\ Holding = Claimed
    /\ \A w \in Holding : worker[w].request # NoRequest
    /\ crawler.active_tasks = Cardinality(Holding)

\* C34: _crawl_iter ends the crawl through 'frontier empty and nothing in
\* flight' only when no worker holds a request it has taken from the
\* frontier and not finished, and from then on, through the cancel of the
\* workers, no worker holds one.
C34_NaturalEnd ==
    /\ [][NaturalEndStep]_vars
    /\ []NaturalEndHolds
    /\ []HoldingIsClaimed

\* a crawl of several workers has ended through the frontier check after
\* pages were fetched and a request was vetoed, the budget not used up
C34_Witness ==
    /\ mainpc = "gather"
    /\ ended = "frontier"
    /\ ccfg.workers >= 2
    /\ crawler.pages_crawled >= 2
    /\ crawler.pages_crawled < ccfg.max_pages
    /\ \E w \in Workers : worker[w].pc = "idle" /\ worker[w].cancelled

(***************************************************************************)
(* C35: pages counted and slots held (SpecHooked).                          *)
(***************************************************************************)
\* C35: the pages counted as crawled and the slots held together never
\* exceed max_pages: a page is not at once counted as crawled and holding
\* a slot.
C35_CountedOrClaimed ==
    crawler.pages_crawled + crawler.active_tasks <= ccfg.max_pages

(***************************************************************************)
(* C36: the not-empty event (SpecSignal).                                   *)
(***************************************************************************)
\* C36: between the calls on a Scheduler the not-empty event is set
\* exactly when a request is pending, so no call of get finds the event
\* set and the queue empty and goes round its loop without a suspension.
C36_SignalIffPending ==
    /\ sched.not_empty <=> sched.queue # <<>>
    /\ lastOp.op = "get" => ~lastOp.spins

(***************************************************************************)
(* C37.  Crawls with hooks (SpecHooked): what becomes of the requests the   *)
(* frontier accepted when the crawl ends with pages left in its budget.     *)
(***************************************************************************)
\* the loop of _crawl_iter ended because the frontier was empty and no
\* worker held a slot, and the run is over with pages left in the budget
EndedUnderBudget ==
    /\ mainpc = "done"
    /\ ended = "frontier"
    /\ crawler.pages_crawled < ccfg.max_pages

\* the page of the accepted, normalized URL was fetched, or the request
\* hooks veto its request
FetchedOrVetoed(normalized) ==
    \E url \in CrawlURLs :
        /\ NormTable[url] = normalized
        /\ gets[url] > 0 \/ RequestVetoed(url)

\* C37: when a crawl has ended naturally with pages_crawled < max_pages,
\* every request the frontier accepted was fetched or vetoed by a request
\* hook: no worker has dropped a request it had pulled because the slots
\* other workers held filled the budget at that moment.
C37_NothingDiscarded ==
    EndedUnderBudget
        => \A i \in 1..Len(crawler.scheduler.seen) :
               FetchedOrVetoed(crawler.scheduler.seen[i])

(***************************************************************************)
(* C38.  Crawls with a checkpoint path (SpecStop): what a periodic          *)
(* checkpoint holds of the requests that are in flight when it is taken.    *)
(***************************************************************************)
\* the page of the accepted, normalized URL has been counted as crawled
PageCounted(normalized) ==
    \E url \in CrawlURLs : NormTable[url] = normalized /\ gets[url] > 0

\* the pending queue of the checkpoint holds a request for the URL
InPendingQueue(cp, normalized) ==
    \E i \in 1..Len(cp.pending_queue) :
        NormTable[cp.pending_queue[i].request[1]] = normalized

\* the turn of the loop of _crawl_iter that saves a periodic checkpoint
\* leaves every URL of the seen-set whose page is not yet counted in the
\* pending queue of the checkpoint
CheckpointStep ==
    (/\ mainpc = "loop" /\ mainpc' = "loop"
     /\ CheckpointDue(crawler, ccfg, last_checkpoint_count)
     /\ checkpoint_file'.exists)
        => \A normalized \in checkpoint_file'.seen_urls :
               PageCounted(normalized)
                   \/ InPendingQueue(checkpoint_file', normalized)

\* C38: every URL in the seen-set of a periodic checkpoint whose page had
\* not been counted as crawled when the checkpoint was taken is in the
\* pending queue of that checkpoint, so that a resumed run fetches it: the
\* requests in flight at that moment are not lost.
C38_CheckpointKeepsInFlight == [][CheckpointStep]_vars

(***************************************************************************)
(* C39.  One caller of fetch with the cache enabled (SpecAlone): the call   *)
(* that repeats a call answered by the network with status 200.             *)
(***************************************************************************)
\* the row the earlier call has written for its response is in the table
\* and within its TTL
RowFresh(url) == rcache[ResponseURL[url]].present /\ ~rcache[ResponseURL[url]].expired

\* the step of the lookup in the cache of a repeated call, its row fresh,
\* returns the response from the cache and starts no attempt
RepeatStep ==
    (/\ ftask[1].pc = "cache_get"
     /\ ftask[1].again
     /\ RowFresh(ftask[1].url)
     /\ ftask'[1] # ftask[1])
        => /\ ftask'[1].pc = "returned"
           /\ ftask'[1].response.from_cache
           /\ buckets' = buckets

\* C39: with the cache enabled, after fetch(u) has returned a response of
\* the network with status 200, a later fetch(u) within the TTL that robots
\* allows returns the cached response, from_cache = true, without a call of
\* the network, for every URL u, a URL that redirects to another included.
C39_RepeatFromCache == [][RepeatStep]_vars

(***************************************************************************)
(* C40.  Crawls with hooks, raising hooks and shutdown (SpecSlots): the     *)
(* slots of the page budget the workers hold.                               *)
(***************************************************************************)
\* where a worker holds a slot: between the claim and the finally clause
ClaimedPcs == {"hooking", "fetching", "rhooking"}

\* active_tasks counts the workers that hold a slot, never more than there
\* are workers, and none once every worker has exited
SlotsCounted ==
    /\ crawler.active_tasks \in 0..ccfg.workers
    /\ crawler.active_tasks = Cardinality(Claimed)
    /\ Gathered(worker) => crawler.active_tasks = 0

\* where an iteration of the loop of _worker is first suspended
FirstPc == IF ccfg.hooks = <<>> THEN "fetching" ELSE "hooking"

\* the step is one of worker w
Moved(w) ==
    worker'[w].pc # worker[w].pc \/ worker'[w].request # worker[w].request

\* the worker leaves an iteration in which it held a slot: the page is
\* processed, the request is vetoed, a hook raises or the task is cancelled
Left(w) ==
    /\ Moved(w)
    /\ worker[w].pc \in ClaimedPcs
    /\ worker'[w].pc \in {"idle", "done", FirstPc}

\* the worker claims a slot for the request it has pulled
Began(w) == Moved(w) /\ worker'[w].pc = FirstPc

\* a step of a worker gives one slot back when it leaves an iteration, and
\* claims one when it begins one; it changes active_tasks in no other way
SlotStep ==
    \A w \in Workers :
        Moved(w)
            => crawler'.active_tasks =
                   crawler.active_tasks - (IF Left(w) THEN 1 ELSE 0)
                                        + (IF Began(w) THEN 1 ELSE 0)

\* C40: in every reachable state 0 <= active_tasks <= the number of
\* workers; on every way out of a worker iteration (the page processed, the
\* request vetoed, an exception, cancellation during the fetch) the slot
\* claimed is given back exactly once; and active_tasks is 0 once all the
\* workers have exited.
C40_SlotsReleasedOnce == []SlotsCounted /\ [][SlotStep]_vars

\* the run is over with no slot held: a page was processed, the request of
\* /b was vetoed, one worker was cancelled while it held a slot and another
\* ended by an exception while it held one
C40_Witness ==
    /\ mainpc = "done"
    /\ crawler.active_tasks = 0
    /\ gets[U_a] > 0
    /\ RequestVetoed(U_b)
    /\ InSeen(crawler.scheduler.seen, NormTable[U_b])
    /\ gets[U_b] = 0
    /\ \E w \in Workers :
           /\ worker[w].pc = "done" /\ worker[w].cancelled
           /\ worker[w].request # NoRequest
    /\ \E w \in Workers :
           /\ worker[w].pc = "done" /\ ~worker[w].cancelled
           /\ worker[w].request # NoRequest
====
